---- MODULE Spec2Model ----
(***************************************************************************)
(* A model of the genetic optimisation engine of                           *)
(* src/optimization/evolutionary/geneticalgorithms.py and of the iteration *)
(* utilities of src/Auxiliary/moreitertools.py it calls.                   *)
(*                                                                         *)
(* Python objects whose class matters are records [ty, items]: ty is the   *)
(* class name and items the contents.  Fitness values and the other        *)
(* fractional parameters are exact rationals <<numerator, denominator>>    *)
(* in lowest terms with a positive denominator (fractions.Fraction);       *)
(* floating-point rounding is not modelled.  A raised exception is a       *)
(* record [exc, line] naming the exception class and the source line that  *)
(* raises it.  Random choices of the code are nondeterministic choices.    *)
(***************************************************************************)
EXTENDS Integers, Sequences, FiniteSets, TLC

(***************************************************************************)
(* Bounds of the model.                                                    *)
(***************************************************************************)
\* The encoder's gene_length: the number of genes of a chromosome.
GeneLength == 2
\* Largest init_pop_size handed to run.
MaxInitPop == 2
\* Largest population handed to a direct call of cull_population.
MaxCullPop == 4
\* Largest population handed to a direct call of a selector's select.
MaxSelectPop == 3
\* Largest quantity requested from a direct call of a selector's select.
MaxQuantity == 2

(***************************************************************************)
(* Exact rational arithmetic (fractions.Fraction, math.ceil).              *)
(***************************************************************************)
RECURSIVE GCD(_, _)
GCD(a, b) == IF b = 0 THEN a ELSE GCD(b, a % b)

Abs(a) == IF a < 0 THEN -a ELSE a

Fraction(n, d) ==
    LET g == GCD(Abs(n), Abs(d))
        s == IF d < 0 THEN -1 ELSE 1
    IN  <<(s * n) \div g, (s * d) \div g>>

FInt(k) == <<k, 1>>
FAdd(x, y) == Fraction(x[1] * y[2] + y[1] * x[2], x[2] * y[2])
FSub(x, y) == Fraction(x[1] * y[2] - y[1] * x[2], x[2] * y[2])
FMul(x, y) == Fraction(x[1] * y[1], x[2] * y[2])
FLt(x, y) == x[1] * y[2] < y[1] * x[2]
FLe(x, y) == x[1] * y[2] <= y[1] * x[2]
FMax(x, y) == IF FLt(x, y) THEN y ELSE x

\* math.ceil of a rational.
Ceil(x) == -((-x[1]) \div x[2])

RECURSIVE FSum(_)
FSum(s) == IF s = <<>> THEN FInt(0) ELSE FAdd(s[1], FSum(Tail(s)))

\* max(...) over a non-empty sequence of rationals.
RECURSIVE FMaxOf(_)
FMaxOf(s) == IF Len(s) = 1 THEN s[1] ELSE FMax(s[1], FMaxOf(Tail(s)))

(***************************************************************************)
(* Python values.                                                          *)
(***************************************************************************)
PyNone == [ty |-> "NoneType", items |-> <<>>]
PyInt(k) == [ty |-> "int", items |-> <<k>>]
PyFraction(x) == [ty |-> "Fraction", items |-> x]
PyList(s) == [ty |-> "list", items |-> s]
PyTuple(s) == [ty |-> "tuple", items |-> s]
PyStr(s) == [ty |-> "str", items |-> s]
\* A row of the two-dimensional array numpy builds from getitem_zip(population,
\* fitness): one (chromosome, fitness) pair.
NdArrayRow(chromosome, fitness) == [ty |-> "ndarray", items |-> <<chromosome, fitness>>]

IsNone(x) == x.ty = "NoneType"
\* The number a Python int or Fraction stands for.
NumberOf(x) == IF x.ty = "int" THEN FInt(x.items[1]) ELSE x.items

\* s[start:stop] of a Python sequence: negative indices count from the end and
\* both indices are clamped to the sequence.
PyIndex(len, i) ==
    IF i < 0 THEN (IF len + i < 0 THEN 0 ELSE len + i)
    ELSE IF i > len THEN len ELSE i
PySlice(s, start, stop) ==
    LET lo == PyIndex(Len(s), start)
        hi == PyIndex(Len(s), stop)
    IN  IF hi <= lo THEN <<>> ELSE SubSeq(s, lo + 1, hi)
\* s[:stop], the slice at the other end of the sequence: a variant of s[start:]
\* under which the survivors of full elitism are the least fit.
PySliceUpTo(s, stop) == PySlice(s, 0, stop)
\* s[start:]
PySliceFrom(s, start) == PySlice(s, start, Len(s))

\* The outcome of a call: a returned value or a raised exception.  possible is
\* FALSE when the random draw handed to the call is one the generator cannot
\* make (an item of probability zero).
Return(v) == [exc |-> "none", line |-> 0, possible |-> TRUE, value |-> v]
Raise(e, l) == [exc |-> e, line |-> l, possible |-> TRUE, value |-> PyNone]

(***************************************************************************)
(* The encoder.  GeneticEncoder is abstract; the system is run with a      *)
(* binary bit-string encoder (BitStringBaseTypes.bin, one bit per gene)    *)
(* whose fitness is the number of 1 genes.  A chromosome is the sequence   *)
(* of its genes.                                                           *)
(***************************************************************************)
Genes == {0, 1}
Chromosomes == [1..GeneLength -> Genes]

RECURSIVE CountOnes(_)
CountOnes(c) == IF c = <<>> THEN 0 ELSE c[1] + CountOnes(Tail(c))

EvaluateFitness(chromosome) == FInt(CountOnes(chromosome))

(***************************************************************************)
(* moreitertools.getitem_zip over a population and its fitness values:     *)
(* the rows numpy reads from it, as many as the shorter sequence has.      *)
(***************************************************************************)
Min(a, b) == IF a < b THEN a ELSE b

GetitemZip(population, fitness) ==
    [i \in 1..Min(Len(population), Len(fitness)) |->
        NdArrayRow(population[i], fitness[i])]

(***************************************************************************)
(* numpy.random.Generator.choice(a, size, p=p) as the selectors call it:   *)
(* size rows of a drawn with replacement, draw[i] being the index of the   *)
(* i-th row drawn.  p is PyNone (uniform) or a list of weights, which      *)
(* numpy requires to be as many as the rows, non-negative and of sum 1.    *)
(***************************************************************************)
ChoiceError(a, size, p, line) ==
    IF size < 0 THEN Raise("ValueError", line)
    ELSE IF Len(a) = 0 /\ size # 0 THEN Raise("ValueError", line)
    ELSE IF IsNone(p) THEN Return(PyNone)
    ELSE IF Len(p.items) # Len(a) THEN Raise("ValueError", line)
    ELSE IF \E i \in 1..Len(a) : FLt(p.items[i], FInt(0)) THEN Raise("ValueError", line)
    ELSE IF FSum(p.items) # FInt(1) THEN Raise("ValueError", line)
    ELSE Return(PyNone)

Choice(a, size, p, draw, line) ==
    LET error == ChoiceError(a, size, p, line)
    IN  IF error.exc # "none" THEN error
        ELSE [exc |-> "none", line |-> 0,
              possible |-> IsNone(p) \/ \A i \in 1..size : FLt(FInt(0), p.items[draw[i]]),
              value |-> [ty |-> "ndarray", items |-> [i \in 1..size |-> a[draw[i]]]]]

\* tuple(getitem_zip(rows)): zipping one sequence wraps each of its rows in a
\* tuple of one element.
TupleOfGetitemZip(rows) == PyTuple([i \in 1..Len(rows) |-> PyTuple(<<rows[i]>>)])

(***************************************************************************)
(* The selectors.  A selector is [kind, tournament_size, n_chosen, inner]; *)
(* the last three are read by the tournament selector only.                *)
(***************************************************************************)
ProportionateSelector == [kind |-> "prop", tournament_size |-> 0, n_chosen |-> 0, inner |-> "None"]
RankedSelector == [kind |-> "rank", tournament_size |-> 0, n_chosen |-> 0, inner |-> "None"]
TournamentSelector(size, n, inner) ==
    [kind |-> "tournament", tournament_size |-> size, n_chosen |-> n, inner |-> inner]

ProportionateSelect(population, fitness, quantity, draw) ==
    LET chosen == Choice(GetitemZip(population, fitness), quantity,
                         PyList(fitness), draw, 534)
    IN  IF chosen.exc # "none" THEN chosen
        ELSE [chosen EXCEPT !.value = TupleOfGetitemZip(chosen.value.items)]

\* ranks = [Fraction(i / rank_sum) for i in range(pop_size)], with
\* rank_sum = (pop_size + 1) * (pop_size / 2.0).
Ranks(pop_size) == [k \in 1..pop_size |-> Fraction(2 * (k - 1), pop_size * (pop_size + 1))]

RankedSelect(population, fitness, quantity, draw) ==
    LET chosen == Choice(GetitemZip(population, fitness), quantity,
                         PyList(Ranks(Len(population))), draw, 552)
    IN  IF chosen.exc # "none" THEN chosen
        ELSE [chosen EXCEPT !.value = TupleOfGetitemZip(chosen.value.items)]

\* The entrants are drawn when select is called; the tournaments and their
\* winners are generators, run when the returned list is built.  The winners
\* generator of line 597 is replaced by that of line 598 before it is run, so
\* no winner is ever taken from the entrants drawn: the draw is not read.
TournamentSelect(selector, population, fitness, quantity, draw) ==
    LET entrants == ChoiceError(GetitemZip(population, fitness),
                                selector.tournament_size * quantity, PyNone, 593)
    IN  IF entrants.exc # "none" THEN entrants
        ELSE IF quantity = 0 THEN Return(PyList(<<>>))
        \* self.__inner_selector.select with no inner selector
        ELSE IF selector.inner = "None" THEN Raise("AttributeError", 598)
        \* select(*zip(tournament), quantity=n_chosen): each entrant is one
        \* positional argument; two entrants are taken as (population, fitness),
        \* which numpy refuses as weights, and a third collides with quantity.
        ELSE IF selector.tournament_size = 2 THEN
            Raise("ValueError", IF selector.inner = "prop" THEN 534 ELSE 552)
        ELSE Raise("TypeError", 598)

Select(selector, population, fitness, quantity, draw) ==
    CASE selector.kind = "prop" -> ProportionateSelect(population, fitness, quantity, draw)
      [] selector.kind = "rank" -> RankedSelect(population, fitness, quantity, draw)
      [] OTHER -> TournamentSelect(selector, population, fitness, quantity, draw)

\* The random draws a call of select reads: one row index for each of the
\* quantity rows a proportionate or ranked selector returns.  Nothing is drawn
\* from no rows.
DrawCount(selector, pool_size, quantity) ==
    IF selector.kind = "tournament" \/ quantity < 0 \/ pool_size = 0 THEN 0 ELSE quantity
Draws(selector, pool_size, quantity) ==
    [1..DrawCount(selector, pool_size, quantity) -> 1..pool_size]

\* GeneticSelector.scale and TournamentSelector.scale: the identity, the
\* tournament selector delegating to an inner selector that is the identity.
Scale(selector, fitness) == fitness

(***************************************************************************)
(* GeneticSystem.cull_population.  population and fitness_values are the   *)
(* items of the lists handed in; elitism_factor is PyNone or a Fraction.   *)
(***************************************************************************)
SurviveQuantity(population_size, survival_factor) ==
    Ceil(FMul(FInt(population_size), survival_factor))

\* The pool the selector draws from in cull_population, and how many it is
\* asked for (both 0 when the selector is not called).
CullPool(population, survival_factor, elitism_factor) ==
    LET population_size == Len(population)
        survive_quantity == SurviveQuantity(population_size, survival_factor)
    IN  IF population_size = survive_quantity THEN [size |-> 0, quantity |-> 0]
        ELSE IF IsNone(elitism_factor)
        THEN [size |-> population_size, quantity |-> survive_quantity]
        ELSE LET elite_quantity == Ceil(FMul(FInt(survive_quantity), NumberOf(elitism_factor)))
             IN  IF survive_quantity = elite_quantity THEN [size |-> 0, quantity |-> 0]
                 ELSE [size |-> Len(PySlice(population, 0, population_size - elite_quantity)),
                       quantity |-> survive_quantity - elite_quantity]

CullPopulation(selector, population, fitness_values, survival_factor, elitism_factor, draw) ==
    LET population_size == Len(population)
        survive_quantity == SurviveQuantity(population_size, survival_factor)
    IN  \* all individuals survive: the culling phase is skipped
        IF population_size = survive_quantity
        THEN Return(PyTuple(<<PyList(population), PyList(fitness_values)>>))
        \* no elitism: what the selector returns is returned as it is
        ELSE IF IsNone(elitism_factor)
        THEN Select(selector, population, fitness_values, survive_quantity, draw)
        ELSE
        LET elite_quantity == Ceil(FMul(FInt(survive_quantity), NumberOf(elitism_factor)))
        IN  \* all surviving are elite: the best individuals, deterministically
            IF survive_quantity = elite_quantity
            THEN Return(PyTuple(<<
                    PyList(PySliceFrom(population, population_size - survive_quantity)),
                    PyList(PySliceFrom(fitness_values, population_size - survive_quantity))>>))
            ELSE
            LET comp_quantity == survive_quantity - elite_quantity
                comp_population == PySlice(population, 0, population_size - elite_quantity)
                comp_fitness_values == PySlice(fitness_values, 0, population_size - elite_quantity)
                selected == Select(selector, comp_population, comp_fitness_values,
                                   comp_quantity, draw)
            IN  IF selected.exc # "none" THEN selected
                \* comp_popluation, comp_fitness_values = <what select returned>
                ELSE IF Len(selected.value.items) # 2
                THEN [selected EXCEPT !.exc = "ValueError", !.line = 1061, !.value = PyNone]
                \* a tuple of select's and a slice of the population list are added
                ELSE [selected EXCEPT !.exc = "TypeError", !.line = 1063, !.value = PyNone]

(***************************************************************************)
(* The decay functions and their lookup by name.  polynomial_decay raises  *)
(* the bias to a rational power and is left out: its values are not        *)
(* rationals.                                                              *)
(***************************************************************************)
\* A variant of exponential_decay that multiplies by the decay itself.
ExponentialDecayByDecay(diversity_bias, decay) == FMul(diversity_bias, decay)

LinearDecay(diversity_bias, decay) == FMax(FInt(0), FSub(diversity_bias, decay))
ExponentialDecay(diversity_bias, decay) == FMul(diversity_bias, FSub(FInt(1), decay))

DecayFunction(decay_type, value, decay) ==
    IF decay_type = "lin" THEN LinearDecay(value, decay)
    ELSE ExponentialDecay(value, decay)

(***************************************************************************)
(* sorted(zip(population, fitness_values), key=lambda item: item[1]): a    *)
(* stable sort of the (individual, fitness) pairs by fitness, ascending.   *)
(***************************************************************************)
RECURSIVE InsertByFitness(_, _)
InsertByFitness(sorted, pair) ==
    IF sorted = <<>> THEN <<pair>>
    ELSE IF FLt(pair[2], sorted[Len(sorted)][2])
         THEN Append(InsertByFitness(SubSeq(sorted, 1, Len(sorted) - 1), pair),
                     sorted[Len(sorted)])
         ELSE Append(sorted, pair)

RECURSIVE SortedByFitness(_)
SortedByFitness(pairs) ==
    IF pairs = <<>> THEN <<>>
    ELSE InsertByFitness(SortedByFitness(SubSeq(pairs, 1, Len(pairs) - 1)),
                         pairs[Len(pairs)])

ZipPairs(population, fitness) == [i \in 1..Len(population) |-> <<population[i], fitness[i]>>]

(***************************************************************************)
(* The Solution record run returns.                                        *)
(***************************************************************************)
GeneticAlgorithmSolution(best_individual, best_fitness, pop, fitness, max_fitness_flag, max_generations_flag, stagnation_flag) ==
    [best_individual |-> best_individual,
     best_fitness |-> best_fitness,
     population |-> pop,
     fitness_values |-> fitness,
     max_fitness_reached |-> max_fitness_flag,
     max_generations_reached |-> max_generations_flag,
     stagnation_limit_reached |-> stagnation_flag]

(***************************************************************************)
(* The state of one call of GeneticSystem.run: its parameters (cfg), its   *)
(* local variables, the statement it is at (pc), the exception it raised   *)
(* and the Solution it returned.  call and result are the arguments and    *)
(* the outcome of a direct call of one of the system's other operations.   *)
(***************************************************************************)
VARIABLES
    pc,
    cfg,
    population,
    fitness_values,
    max_fitness,
    generation,
    best_fitness_achieved,
    best_individual_achieved,
    stagnated_generations,
    stagnation_limit,
    diversity_bias,
    base_population_size,
    desired_population_size,
    raised,
    solution,
    call,
    result,
    queue

locals == <<population, fitness_values, max_fitness, generation,
            best_fitness_achieved, best_individual_achieved,
            stagnated_generations, stagnation_limit, diversity_bias,
            base_population_size, desired_population_size>>
runvars == <<pc, cfg, locals, raised, solution>>
vars == <<runvars, call, result, queue>>

\* A local variable no statement has assigned yet.
Unbound == <<>>
NoException == [exc |-> "none", line |-> 0]
NoSolution == PyNone
NoCall == [op |-> "none"]
\* No queue has been constructed.
NoQueue == [cls |-> "none"]
\* The outcome of a direct call that has not been made yet.
NoResult == [exc |-> "pending", line |-> 0, possible |-> TRUE, value |-> PyNone]

\* The parameters run is called with.  The parameters of reproduction and
\* mutation, which no statement of run reads before run ends, are left out.
SurvivalFactors == {Fraction(1, 2), FInt(1)}
ExpansionFactors == {FInt(1), FInt(3)}
StagnationLimits == {PyNone, PyInt(1), PyFraction(Fraction(1, 2))}
MaxGenerations == {PyNone, PyInt(0), PyInt(1)}
\* no threshold; every gene a 1
FitnessThresholds == {PyNone, PyFraction(FInt(GeneLength))}
ElitismFactors == {PyNone, PyFraction(Fraction(1, 2)), PyFraction(FInt(1))}
\* no diversity bias; run's defaults (0.95, decay 100, "exp"); a linear
\* schedule; a bias that is not to decay
DiversitySchedules ==
    {[bias |-> PyNone, decay |-> PyNone, decay_type |-> "exp"],
     [bias |-> PyFraction(Fraction(19, 20)), decay |-> PyInt(100), decay_type |-> "exp"],
     [bias |-> PyFraction(Fraction(1, 2)), decay |-> PyFraction(Fraction(1, 4)), decay_type |-> "lin"],
     [bias |-> PyFraction(Fraction(1, 2)), decay |-> PyNone, decay_type |-> "lin"]}
Selectors == {ProportionateSelector, RankedSelector, TournamentSelector(3, 1, "None")}

Configurations ==
    [init_pop_size : 0..MaxInitPop,
     max_pop_size : {4},
     expansion_factor : ExpansionFactors,
     survival_factor : SurvivalFactors,
     survival_elitism_factor : ElitismFactors,
     replacement : BOOLEAN,
     max_generations : MaxGenerations,
     stagnation_limit : StagnationLimits,
     fitness_threshold : FitnessThresholds,
     diversity : DiversitySchedules,
     selector : Selectors]

InitRun ==
    /\ pc = "ready"
    /\ cfg = [op |-> "none"]
    /\ population = PyNone
    /\ fitness_values = PyNone
    /\ max_fitness = Unbound
    /\ generation = 0
    /\ best_fitness_achieved = Unbound
    /\ best_individual_achieved = Unbound
    /\ stagnated_generations = 0
    /\ stagnation_limit = PyNone
    /\ diversity_bias = PyNone
    /\ base_population_size = 0
    /\ desired_population_size = 0
    /\ raised = NoException
    /\ solution = NoSolution

Init ==
    /\ InitRun
    /\ call = NoCall
    /\ result = NoResult
    /\ queue = NoQueue

\* A variant of the check of the parameters that lets a survival factor of
\* exactly 1 through (> for >= at line 881).
ConfigurationErrorAboveOne(c) ==
    IF FLt(FInt(1), c.survival_factor) THEN [exc |-> "ValueError", line |-> 882]
    ELSE IF c.replacement /\ FLe(FMul(c.expansion_factor, c.survival_factor), FInt(1))
    THEN [exc |-> "ValueError", line |-> 886]
    ELSE IF ~IsNone(c.stagnation_limit) /\ c.stagnation_limit.ty # "int"
            /\ IsNone(c.max_generations)
    THEN [exc |-> "TypeError", line |-> 892]
    ELSE NoException

\* The check of the parameters, lines 881-894: the exception raised, if any.
ConfigurationError(c) ==
    IF FLe(FInt(1), c.survival_factor) THEN [exc |-> "ValueError", line |-> 882]
    ELSE IF c.replacement /\ FLe(FMul(c.expansion_factor, c.survival_factor), FInt(1))
    THEN [exc |-> "ValueError", line |-> 886]
    ELSE IF ~IsNone(c.stagnation_limit) /\ c.stagnation_limit.ty # "int"
            /\ IsNone(c.max_generations)
    THEN [exc |-> "TypeError", line |-> 892]
    ELSE NoException

\* stagnation_limit = int(stagnation_limit * max_generations), line 894; int
\* truncates towards zero.
ResolvedStagnationLimit(c) ==
    IF ~IsNone(c.stagnation_limit) /\ c.stagnation_limit.ty # "int"
    THEN LET x == FMul(NumberOf(c.stagnation_limit), NumberOf(c.max_generations))
         IN  PyInt(IF x[1] < 0 THEN -((-x[1]) \div x[2]) ELSE x[1] \div x[2])
    ELSE c.stagnation_limit

\* run is called: lines 881-894.
RunCall ==
    /\ pc = "ready"
    /\ \E c \in Configurations :
        /\ cfg' = c
        /\ LET e == ConfigurationError(c)
           IN  IF e.exc # "none"
               THEN /\ pc' = "raised"
                    /\ raised' = e
                    /\ UNCHANGED <<stagnation_limit, diversity_bias>>
               ELSE /\ pc' = "create"
                    /\ raised' = raised
                    /\ stagnation_limit' = ResolvedStagnationLimit(c)
                    /\ diversity_bias' = c.diversity.bias
    /\ UNCHANGED <<population, fitness_values, max_fitness, generation,
                   best_fitness_achieved, best_individual_achieved,
                   stagnated_generations, base_population_size,
                   desired_population_size, solution, call, result, queue>>

\* create_population and the first evaluation of fitness: lines 896-898.
CreatePopulation ==
    /\ pc = "create"
    /\ \E individuals \in [1..cfg.init_pop_size -> Chromosomes] :
        /\ population' = PyList(individuals)
        /\ fitness_values' = PyList([i \in 1..Len(individuals) |->
                                        EvaluateFitness(individuals[i])])
    /\ pc' = "sort"
    /\ UNCHANGED <<cfg, max_fitness, generation, best_fitness_achieved,
                   best_individual_achieved, stagnated_generations,
                   stagnation_limit, diversity_bias, base_population_size,
                   desired_population_size, raised, solution, call, result, queue>>

\* The initial sort, lines 901-905: with survival elitism the population and
\* its fitness values are sorted by fitness; unzipping no pairs leaves nothing
\* to unpack.
SortInitial ==
    /\ pc = "sort"
    /\ IF IsNone(cfg.survival_elitism_factor)
       THEN /\ pc' = "init"
            /\ UNCHANGED <<population, fitness_values, raised>>
       ELSE IF population.items = <<>>
       THEN /\ pc' = "raised"
            /\ raised' = [exc |-> "ValueError", line |-> 902]
            /\ UNCHANGED <<population, fitness_values>>
       ELSE LET pairs == SortedByFitness(ZipPairs(population.items, fitness_values.items))
            IN  /\ population' = PyList([i \in 1..Len(pairs) |-> pairs[i][1]])
                /\ fitness_values' = PyList([i \in 1..Len(pairs) |-> pairs[i][2]])
                /\ pc' = "init"
                /\ raised' = raised
    /\ UNCHANGED <<cfg, max_fitness, generation, best_fitness_achieved,
                   best_individual_achieved, stagnated_generations,
                   stagnation_limit, diversity_bias, base_population_size,
                   desired_population_size, solution, call, result, queue>>

\* Lines 907-919: the best fitness of the initial population starts the
\* stagnation bookkeeping.  best_individual_achieved is not assigned here.
InitBookkeeping ==
    /\ pc = "init"
    /\ IF fitness_values.items = <<>>
       THEN /\ pc' = "raised"
            /\ raised' = [exc |-> "ValueError", line |-> 907]
            /\ UNCHANGED <<max_fitness, best_fitness_achieved>>
       ELSE /\ max_fitness' = FMaxOf(fitness_values.items)
            /\ best_fitness_achieved' = FMaxOf(fitness_values.items)
            /\ pc' = "loop"
            /\ raised' = raised
    /\ generation' = 0
    /\ stagnated_generations' = 0
    /\ UNCHANGED <<cfg, population, fitness_values, best_individual_achieved,
                   stagnation_limit, diversity_bias, base_population_size,
                   desired_population_size, solution, call, result, queue>>

\* while not (generation >= max_generations), line 921.
\* The loop test as it would be were the body entered whatever the count of
\* generations.
LoopTestUnbounded ==
    /\ pc = "loop"
    /\ IF IsNone(cfg.max_generations)
       THEN /\ pc' = "raised"
            /\ raised' = [exc |-> "TypeError", line |-> 921]
       ELSE /\ pc' = "bias"
            /\ raised' = raised
    /\ UNCHANGED <<cfg, locals, solution, call, result, queue>>

LoopTest ==
    /\ pc = "loop"
    /\ IF IsNone(cfg.max_generations)
       THEN /\ pc' = "raised"
            /\ raised' = [exc |-> "TypeError", line |-> 921]
       ELSE /\ pc' = IF generation >= cfg.max_generations.items[1]
                     THEN "return" ELSE "bias"
            /\ raised' = raised
    /\ UNCHANGED <<cfg, locals, solution, call, result, queue>>

\* Lines 922-934: the diversity bias is aged and applied to the fitness values.
\* The biased fitness values as they would be were the distance to the
\* maximum fitness weighed by one more than the bias.
BiasedFitnessBeyond(fitness, best, bias) ==
    [i \in 1..Len(fitness) |->
        FAdd(fitness[i], FMul(FSub(best, fitness[i]), FAdd(FInt(1), bias)))]

\* The biased fitness values as they would be were the whole of the maximum
\* fitness weighed by the bias.
BiasedFitnessOfMaximum(fitness, best, bias) ==
    [i \in 1..Len(fitness) |-> FAdd(fitness[i], FMul(best, bias))]

BiasedFitness(fitness, best, bias) ==
    [i \in 1..Len(fitness) |-> FAdd(fitness[i], FMul(FSub(best, fitness[i]), bias))]

AgedBias(schedule, bias) ==
    IF ~IsNone(schedule.decay)
    THEN PyFraction(DecayFunction(schedule.decay_type, NumberOf(bias), NumberOf(schedule.decay)))
    ELSE bias

BiasAdjust ==
    /\ pc = "bias"
    /\ IF IsNone(diversity_bias)
       THEN UNCHANGED <<diversity_bias, fitness_values>>
       ELSE /\ diversity_bias' = AgedBias(cfg.diversity, diversity_bias)
            /\ fitness_values' = PyList(BiasedFitness(fitness_values.items, max_fitness,
                                                      NumberOf(diversity_bias')))
    /\ pc' = "scale"
    /\ UNCHANGED <<cfg, population, max_fitness, generation, best_fitness_achieved,
                   best_individual_achieved, stagnated_generations,
                   stagnation_limit, base_population_size,
                   desired_population_size, raised, solution, call, result, queue>>

\* Lines 937-939: the selector's scaling, and the size of the population
\* before culling.
ScaleFitness ==
    /\ pc = "scale"
    /\ fitness_values' = PyList(Scale(cfg.selector, fitness_values.items))
    /\ base_population_size' = Len(population.items)
    /\ pc' = "cull"
    /\ UNCHANGED <<cfg, population, max_fitness, generation, best_fitness_achieved,
                   best_individual_achieved, stagnated_generations,
                   stagnation_limit, diversity_bias, desired_population_size,
                   raised, solution, call, result, queue>>

\* population, fitness_values = self.cull_population(...), line 944: what
\* cull_population returns is unpacked into two.
CullStep ==
    /\ pc = "cull"
    /\ LET pool == CullPool(population.items, cfg.survival_factor,
                            cfg.survival_elitism_factor)
       IN  \E draw \in Draws(cfg.selector, pool.size, pool.quantity) :
            LET culled == CullPopulation(cfg.selector, population.items,
                                         fitness_values.items, cfg.survival_factor,
                                         cfg.survival_elitism_factor, draw)
            IN  /\ culled.possible
                /\ IF culled.exc # "none"
                   THEN /\ pc' = "raised"
                        /\ raised' = [exc |-> culled.exc, line |-> culled.line]
                        /\ UNCHANGED <<population, fitness_values>>
                   ELSE IF Len(culled.value.items) # 2
                   THEN /\ pc' = "raised"
                        /\ raised' = [exc |-> "ValueError", line |-> 944]
                        /\ UNCHANGED <<population, fitness_values>>
                   ELSE /\ population' = culled.value.items[1]
                        /\ fitness_values' = culled.value.items[2]
                        /\ pc' = "grow"
                        /\ raised' = raised
    /\ UNCHANGED <<cfg, max_fitness, generation, best_fitness_achieved,
                   best_individual_achieved, stagnated_generations,
                   stagnation_limit, diversity_bias, base_population_size,
                   desired_population_size, solution, call, result, queue>>

\* Lines 949-950: grow_population(population, fitness_values,
\* desired_population_size, replacement) is called with four arguments;
\* grow_population has five required parameters (reproduction_elitism_factor
\* and survival_factor follow desired_population_size), so the call raises
\* before grow_population runs.
GrowStep ==
    /\ pc = "grow"
    /\ desired_population_size' =
            Min(Ceil(FMul(FInt(base_population_size), cfg.expansion_factor)),
                cfg.max_pop_size)
    /\ pc' = "raised"
    /\ raised' = [exc |-> "TypeError", line |-> 950]
    /\ UNCHANGED <<cfg, population, fitness_values, max_fitness, generation,
                   best_fitness_achieved, best_individual_achieved,
                   stagnated_generations, stagnation_limit, diversity_bias,
                   base_population_size, solution, call, result, queue>>

\* The return after the loop, line 991: the Solution is built from
\* best_individual_achieved, which only line 977 assigns.
ReturnMaxGenerations ==
    /\ pc = "return"
    /\ IF best_individual_achieved = Unbound
       THEN /\ pc' = "raised"
            /\ raised' = [exc |-> "UnboundLocalError", line |-> 991]
            /\ solution' = solution
       ELSE /\ pc' = "returned"
            /\ raised' = raised
            /\ solution' = GeneticAlgorithmSolution(best_individual_achieved,
                                best_fitness_achieved, population, fitness_values,
                                FALSE, TRUE, FALSE)
    /\ UNCHANGED <<cfg, locals, call, result, queue>>

Next ==
    \/ RunCall
    \/ CreatePopulation
    \/ SortInitial
    \/ InitBookkeeping
    \/ LoopTest
    \/ BiasAdjust
    \/ ScaleFitness
    \/ CullStep
    \/ GrowStep
    \/ ReturnMaxGenerations

Spec == Init /\ [][Next]_vars

\* run called with a tournament selector, or with a proportionate selector
\* and at most two individuals, with its default diversity schedule, no
\* expansion, no replacement, no fitness threshold and no stagnation limit,
\* every other parameter as in Configurations.  run is one thread of control: once called, whenever it
\* has a next step, it takes it.
CountedConfigurations ==
    {c \in Configurations :
        /\ \/ c.selector.kind = "tournament"
           \/ c.selector.kind = "prop" /\ c.init_pop_size <= 2
        /\ c.diversity.decay = PyInt(100)
        /\ c.expansion_factor = FInt(1)
        /\ ~c.replacement
        /\ IsNone(c.fitness_threshold)
        /\ IsNone(c.stagnation_limit)}

\* run called with one of these configurations.
CountedRunCall == RunCall /\ cfg' \in CountedConfigurations

NextCounted ==
    \/ CountedRunCall
    \/ CreatePopulation
    \/ SortInitial
    \/ InitBookkeeping
    \/ LoopTest
    \/ BiasAdjust
    \/ ScaleFitness
    \/ CullStep
    \/ GrowStep
    \/ ReturnMaxGenerations

\* The steps of run after its parameters are checked.
RunSteps ==
    \/ CreatePopulation
    \/ SortInitial
    \/ InitBookkeeping
    \/ LoopTest
    \/ BiasAdjust
    \/ ScaleFitness
    \/ CullStep
    \/ GrowStep
    \/ ReturnMaxGenerations

FairSpec == Init /\ [][NextCounted]_vars /\ WF_vars(RunSteps)

(***************************************************************************)
(* Direct calls of cull_population.  The individuals are opaque named      *)
(* chromosomes; the fitness values are handed in ascending order, as       *)
(* cull_population asks of its caller, and the selector is any of those    *)
(* run is given.                                                           *)
(***************************************************************************)
MaxFitness == 4
IndividualNames == <<"A", "B", "C", "D", "E">>
NamedPopulation(n) == [i \in 1..n |-> PyStr(IndividualNames[i])]

AscendingFitness(n) ==
    {[i \in 1..n |-> FInt(f[i])] :
        f \in {g \in [1..n -> 0..MaxFitness] : \A i \in 1..(n - 1) : g[i] <= g[i + 1]}}

CullSurvivalFactors == {Fraction(1, 4), Fraction(1, 2), Fraction(3, 4), FInt(1)}

CullCalls ==
    UNION {[op : {"cull_population"},
            selector : Selectors,
            population : {NamedPopulation(n)},
            fitness_values : AscendingFitness(n),
            survival_factor : CullSurvivalFactors,
            elitism_factor : ElitismFactors] : n \in 0..MaxCullPop}

InitCull ==
    /\ InitRun
    /\ call \in CullCalls
    /\ result = NoResult
    /\ queue = NoQueue

CullPopulationCall ==
    /\ call.op = "cull_population"
    /\ result = NoResult
    /\ LET pool == CullPool(call.population, call.survival_factor, call.elitism_factor)
       IN  \E draw \in Draws(call.selector, pool.size, pool.quantity) :
            LET culled == CullPopulation(call.selector, call.population,
                                         call.fitness_values, call.survival_factor,
                                         call.elitism_factor, draw)
            IN  /\ culled.possible
                /\ result' = culled
    /\ UNCHANGED <<runvars, call, queue>>

NextCull == CullPopulationCall

SpecCull == InitCull /\ [][NextCull]_vars

(***************************************************************************)
(* Direct calls of a selector's select.  The population and the fitness    *)
(* values are lists of any lengths up to MaxSelectPop; the selector is a   *)
(* proportionate or ranked selector or any tournament selector its         *)
(* constructor accepts (tournament size at least 2, n_chosen below it).    *)
(***************************************************************************)
MaxTournamentSize == 3
SelectWeights == {FInt(0), Fraction(1, 2), FInt(1)}

DirectSelectors ==
    {ProportionateSelector, RankedSelector}
    \cup {TournamentSelector(size, n, inner) :
            size \in 2..MaxTournamentSize, n \in 1..MaxTournamentSize,
            inner \in {"None", "prop", "rank"}}

SelectCalls ==
    {c \in [op : {"select"},
            selector : DirectSelectors,
            population : {NamedPopulation(n) : n \in 0..MaxSelectPop},
            fitness_values : UNION {[1..m -> SelectWeights] : m \in 0..MaxSelectPop},
            quantity : 0..MaxQuantity] :
        c.selector.kind = "tournament" => c.selector.n_chosen < c.selector.tournament_size}

InitSelect ==
    /\ InitRun
    /\ call \in SelectCalls
    /\ result = NoResult
    /\ queue = NoQueue

SelectCall ==
    /\ call.op = "select"
    /\ result = NoResult
    /\ \E draw \in Draws(call.selector,
                         Min(Len(call.population), Len(call.fitness_values)),
                         call.quantity) :
        LET selected == Select(call.selector, call.population, call.fitness_values,
                               call.quantity, draw)
        IN  /\ selected.possible
            /\ result' = selected
    /\ UNCHANGED <<runvars, call, queue>>

NextSelect == SelectCall

SpecSelect == InitSelect /\ [][NextSelect]_vars

(***************************************************************************)
(* Properties of run.                                                      *)
(***************************************************************************)
\* run has been called with parameters its checks of lines 881-894 accept.
Accepted == pc # "ready" /\ ConfigurationError(cfg).exc = "none"
\* ... and with a first population that is not empty and a number of
\* generations to run for.
WellFormedRun ==
    /\ Accepted
    /\ cfg.init_pop_size >= 1
    /\ ~IsNone(cfg.max_generations)
\* run is over: it returned or raised.
RunEnded == pc \in {"raised", "returned"}
\* The lines of the body of run's loop and of the operations it calls.
LoopBodyLines == (922..989) \cup (528..599) \cup (1036..1064)
\* A generation of run ended in an exception.
GenerationFailed == pc = "raised" /\ raised.line \in LoopBodyLines

FlagsSet(s) ==
    {f \in {"max_fitness_reached", "max_generations_reached", "stagnation_limit_reached"} : s[f]}

\* C1: a run called with accepted parameters, a non-empty first population
\* and a number of generations ends by returning a Solution, and that
\* Solution has exactly one of max_fitness_reached, max_generations_reached
\* and stagnation_limit_reached set.
C1_ExactlyOneTerminationFlag ==
    (WellFormedRun /\ RunEnded) =>
        /\ pc = "returned"
        /\ Cardinality(FlagsSet(solution)) = 1

\* C2: a run of at least one generation ends by returning a Solution whose
\* flag follows the priority of the checks made at the end of the last
\* generation: max_fitness_reached if the best fitness has reached the
\* threshold, else stagnation_limit_reached if the stagnation counter equals
\* the stagnation limit, else max_generations_reached.
C2_TerminationPriority ==
    (WellFormedRun /\ RunEnded /\ cfg.max_generations.items[1] >= 1) =>
        /\ pc = "returned"
        /\ FlagsSet(solution) =
            IF ~IsNone(cfg.fitness_threshold)
               /\ FLe(NumberOf(cfg.fitness_threshold), solution.best_fitness)
            THEN {"max_fitness_reached"}
            ELSE IF ~IsNone(stagnation_limit)
                    /\ stagnated_generations = stagnation_limit.items[1]
            THEN {"stagnation_limit_reached"}
            ELSE {"max_generations_reached"}

\* C3: every generation run begins comes to its end, and at the end of a
\* generation the stagnation counter is the number of generations since the
\* last improvement: never more than the generations run, and all of them
\* while no generation has improved on the first population (line 977 has
\* not assigned best_individual_achieved).
C3_StagnationCounter ==
    /\ ~GenerationFailed
    /\ generation >= 1 =>
        /\ stagnated_generations <= generation
        /\ best_individual_achieved = Unbound => stagnated_generations = generation

\* C4: when the survival factor is at least 1, or replacement is enabled and
\* expansion_factor * survival_factor is at most 1, or the stagnation limit
\* is a proportion and max_generations is None, a call of run ends in a
\* ValueError or TypeError raised by lines 881-894, with no population
\* created, no fitness evaluated and no generation begun.
RejectedConfiguration(c) ==
    \/ c.survival_factor[1] >= c.survival_factor[2]
    \/ /\ c.replacement
       /\ c.expansion_factor[1] * c.survival_factor[1]
            <= c.expansion_factor[2] * c.survival_factor[2]
    \/ /\ c.stagnation_limit.ty = "Fraction"
       /\ c.max_generations.ty = "NoneType"

C4_ConfigurationErrorFirst ==
    (pc # "ready" /\ RejectedConfiguration(cfg)) =>
        /\ pc = "raised"
        /\ raised.exc \in {"ValueError", "TypeError"}
        /\ raised.line \in 881..894
        /\ population = PyNone
        /\ fitness_values = PyNone
        /\ max_fitness = Unbound
        /\ generation = 0

\* C4 happens: a call whose only fault is a proportional stagnation limit
\* with max_generations None has raised the TypeError of line 892.
C4_Witness ==
    /\ pc = "raised"
    /\ raised = [exc |-> "TypeError", line |-> 892]
    /\ cfg.stagnation_limit = PyFraction(Fraction(1, 2))
    /\ IsNone(cfg.max_generations)
    /\ cfg.survival_factor = Fraction(1, 2)
    /\ ~cfg.replacement
    /\ population = PyNone

IsAscending(fitness) ==
    \A i \in 1..(Len(fitness) - 1) : FLe(fitness[i], fitness[i + 1])

\* C5: with survival elitism, every generation run begins comes to its
\* end, and at the end of a generation fitness_values is non-decreasing and
\* fitness_values[i] is the fitness of population[i].
C5_SortedAndAligned ==
    (pc # "ready" /\ ~IsNone(cfg.survival_elitism_factor)) =>
        /\ ~GenerationFailed
        /\ generation >= 1 =>
            /\ IsAscending(fitness_values.items)
            /\ Len(population.items) = Len(fitness_values.items)
            /\ \A i \in 1..Len(population.items) :
                fitness_values.items[i] = EvaluateFitness(population.items[i])

\* C6: for parameters run accepts, every generation run begins comes to its
\* end, and at the end of a generation the population has at most
\* max_pop_size individuals.
C6_AtMostMaxPopSize ==
    Accepted =>
        /\ ~GenerationFailed
        /\ generation >= 1 => Len(population.items) <= cfg.max_pop_size

\* C7: every generation run begins comes to its end with a population of at
\* least ceil(previous_size * survival_factor) individuals, previous_size
\* being the size of the population the generation began with.
C7_AtLeastSurvivors ==
    Accepted =>
        /\ ~GenerationFailed
        /\ generation >= 1 =>
            Len(population.items) * cfg.survival_factor[2]
                >= base_population_size * cfg.survival_factor[1]

\* C9: a run of no generations (max_generations = 0) on a non-empty first
\* population ends by returning a Solution whose best_fitness is the greatest
\* fitness of the first population and whose best_individual is an individual
\* of that population with that fitness.
C9_BestOfRun ==
    (WellFormedRun /\ RunEnded /\ cfg.max_generations.items[1] = 0) =>
        /\ pc = "returned"
        /\ solution.best_fitness = FMaxOf(fitness_values.items)
        /\ \E i \in 1..Len(population.items) :
            /\ solution.best_individual = population.items[i]
            /\ EvaluateFitness(solution.best_individual) = solution.best_fitness

(***************************************************************************)
(* Properties of cull_population.                                          *)
(***************************************************************************)
\* The last k items of a sequence.
LastOf(s, k) == [i \in 1..k |-> s[Len(s) - k + i]]

ScenarioCull(c) ==
    /\ c.op = "cull_population"
    /\ c.population = <<PyStr("A"), PyStr("B"), PyStr("C"), PyStr("D")>>
    /\ c.fitness_values = <<FInt(1), FInt(2), FInt(3), FInt(4)>>
    /\ c.survival_factor = Fraction(1, 2)
    /\ c.elitism_factor = PyFraction(FInt(1))

\* C8: cull_population with an elitism factor of 1 on a population in
\* ascending order of fitness returns the last k individuals and the last k
\* fitness values, k being the least integer not below population_size *
\* survival_factor; no individual left out is fitter than one kept; and for
\* [A,B,C,D] with fitness [1,2,3,4] and survival factor 1/2 it returns
\* [C,D] with [3,4].
C8_FullElitismKeepsTheBest ==
    (call.op = "cull_population" /\ result # NoResult
        /\ call.elitism_factor = PyFraction(FInt(1))
        /\ IsAscending(call.fitness_values)) =>
        LET n == Len(call.population)
            k == CHOOSE j \in 0..n :
                    /\ j * call.survival_factor[2] >= n * call.survival_factor[1]
                    /\ (j - 1) * call.survival_factor[2] < n * call.survival_factor[1]
        IN  /\ result.exc = "none"
            /\ result.value = PyTuple(<<PyList(LastOf(call.population, k)),
                                        PyList(LastOf(call.fitness_values, k))>>)
            /\ \A i \in 1..(n - k), j \in (n - k + 1)..n :
                FLe(call.fitness_values[i], call.fitness_values[j])
            /\ ScenarioCull(call) =>
                /\ result.value.items[1].items = <<PyStr("C"), PyStr("D")>>
                /\ result.value.items[2].items = <<FInt(3), FInt(4)>>

\* C8 happens: the call of the scenario has returned [C,D].
C8_Witness ==
    /\ ScenarioCull(call)
    /\ result.exc = "none"
    /\ result.value.items[1] = PyList(<<PyStr("C"), PyStr("D")>>)

(***************************************************************************)
(* Properties of the selectors.                                            *)
(***************************************************************************)
\* A call of select with a quantity of at least 1, a population that is not
\* empty and as many fitness values, in ascending order, none negative and of
\* sum 1.
WellFormedSelect(c) ==
    /\ c.op = "select"
    /\ c.quantity >= 1
    /\ Len(c.population) >= 1
    /\ Len(c.fitness_values) = Len(c.population)
    /\ IsAscending(c.fitness_values)
    /\ FSum(c.fitness_values) = FInt(1)

\* C10: a well-formed call of select, of any selector, returns exactly
\* quantity items, each a chromosome of the population handed in.
C10_SelectReturnsChromosomes ==
    (WellFormedSelect(call) /\ result # NoResult) =>
        /\ result.exc = "none"
        /\ Len(result.value.items) = call.quantity
        /\ \A i \in 1..Len(result.value.items) :
            /\ result.value.items[i].ty = "str"
            /\ \E j \in 1..Len(call.population) :
                call.population[j] = result.value.items[i]

\* C11: a call of select whose population and fitness values differ in
\* length, or whose quantity is below 1, ends in an exception and returns
\* nothing, whatever the selector.
C11_InvalidSelectRaises ==
    (call.op = "select" /\ result # NoResult
        /\ (Len(call.population) # Len(call.fitness_values) \/ call.quantity < 1)) =>
        result.exc # "none"

\* C12: for a population of N >= 1 individuals the ranked selector's weight
\* of the individual at 0-based position i is (i+1) / (1+2+...+N): every
\* weight is above 0 and the weights sum to 1.
C12_RankWeights ==
    (call.op = "select" /\ call.selector.kind = "rank" /\ result # NoResult
        /\ Len(call.population) >= 1) =>
        LET N == Len(call.population)
        IN  /\ \A i \in 0..(N - 1) :
                /\ Ranks(N)[i + 1] = Fraction(2 * (i + 1), N * (N + 1))
                /\ FLt(FInt(0), Ranks(N)[i + 1])
            /\ FSum(Ranks(N)) = FInt(1)

\* C13: a well-formed call of select on a tournament selector with no inner
\* selector returns, without raising, n_chosen individuals of the population
\* for each of its quantity tournaments.
C13_TournamentWithoutInner ==
    (WellFormedSelect(call) /\ result # NoResult
        /\ call.selector.kind = "tournament" /\ call.selector.inner = "None") =>
        /\ result.exc = "none"
        /\ Len(result.value.items) = call.quantity * call.selector.n_chosen
        /\ \A i \in 1..Len(result.value.items) :
            /\ result.value.items[i].ty = "str"
            /\ \E j \in 1..Len(call.population) :
                call.population[j] = result.value.items[i]

(***************************************************************************)
(* The recombinators and the point mutator.  A chromosome is a Python str  *)
(* or list; here a str is the sequence of its characters, so that joining  *)
(* and indexing do what Python does: PyStr(<<"b", "c">>) is "bc".  A gene  *)
(* of a list chromosome is an int or a str of one or more characters.      *)
(***************************************************************************)
MaxChromosomeLength == 3
MaxPoints == 2

\* len(c), c[i] for a 1-based i, iter(c), a + b and c[start:stop].
PyLen(c) == Len(c.items)
PyGetItem(c, i) == IF c.ty = "str" THEN PyStr(<<c.items[i]>>) ELSE c.items[i]
PyIter(c) == [i \in 1..PyLen(c) |-> PyGetItem(c, i)]
PyAdd(a, b) == [ty |-> a.ty, items |-> a.items \o b.items]
PySliceOf(c, start, stop) == [ty |-> c.ty, items |-> PySlice(c.items, start, stop)]

\* "".join(genes): the characters of the genes one after the other; join
\* refuses an item that is not a str.
RECURSIVE JoinedCharacters(_)
JoinedCharacters(genes) ==
    IF genes = <<>> THEN <<>> ELSE genes[1].items \o JoinedCharacters(Tail(genes))
Join(genes, line) ==
    IF \E i \in 1..Len(genes) : genes[i].ty # "str" THEN Raise("TypeError", line)
    ELSE Return(PyStr(JoinedCharacters(genes)))

\* A variant of PointCrossOver.recombine whose second offspring takes the
\* first parent's genes outside the cuts as well.
PointCrossOverOneSided(chromosome_1, chromosome_2, draw) ==
    IF PyLen(chromosome_1) = 0 THEN Raise("ValueError", 292)
    ELSE LET L == PyLen(chromosome_1)
             left_point == draw[1]
             right_point == draw[2]
         IN  Return(PyTuple(<<
                PyAdd(PyAdd(PySliceOf(chromosome_1, 0, left_point),
                            PySliceOf(chromosome_2, left_point, right_point)),
                      PySliceOf(chromosome_1, right_point, L)),
                PyAdd(PyAdd(PySliceOf(chromosome_1, 0, left_point),
                            PySliceOf(chromosome_1, left_point, right_point)),
                      PySliceOf(chromosome_2, right_point, L))>>))

\* PointCrossOver.recombine, lines 290-295.  numpy's randint(low, high) draws
\* from low up to high - 1 and raises ValueError when there is no such
\* number; draw is <<left_point, right_point>>.
PointCrossOverRecombine(chromosome_1, chromosome_2, draw) ==
    IF PyLen(chromosome_1) = 0 THEN Raise("ValueError", 292)
    ELSE LET left_point == draw[1]
             right_point == draw[2]
         IN  Return(PyTuple(<<
                PyAdd(PyAdd(PySliceOf(chromosome_1, 0, left_point),
                            PySliceOf(chromosome_2, left_point, right_point)),
                      PySliceOf(chromosome_1, right_point, PyLen(chromosome_1))),
                PyAdd(PyAdd(PySliceOf(chromosome_2, 0, left_point),
                            PySliceOf(chromosome_1, left_point, right_point)),
                      PySliceOf(chromosome_2, right_point, PyLen(chromosome_2)))>>))

\* SplitCrossOver.recombine, lines 301-305; draw is <<point>>.
SplitCrossOverRecombine(chromosome_1, chromosome_2, draw) ==
    IF PyLen(chromosome_1) = 0 THEN Raise("ValueError", 303)
    ELSE LET point == draw[1]
         IN  Return(PyTuple(<<
                PyAdd(PySliceOf(chromosome_1, 0, point),
                      PySliceOf(chromosome_2, point, PyLen(chromosome_2))),
                PyAdd(PySliceOf(chromosome_2, 0, point),
                      PySliceOf(chromosome_1, point, PyLen(chromosome_1)))>>))

\* UniformSwapper.recombine, lines 308-323; draw[i] is randint(0, 2) for the
\* i-th pair of genes.  The loop names its pair of genes chromosome_1 and
\* chromosome_2, so the isinstance test of line 321 reads the last gene of
\* the first parent (the parent itself when the loop did not run).
UniformSwapperRecombine(chromosome_1, chromosome_2, draw) ==
    LET n == Min(PyLen(chromosome_1), PyLen(chromosome_2))
        genes_1 == PyIter(chromosome_1)
        genes_2 == PyIter(chromosome_2)
        new_chromosome_1 == [i \in 1..n |-> IF draw[i] # 0 THEN genes_1[i] ELSE genes_2[i]]
        new_chromosome_2 == [i \in 1..n |-> IF draw[i] # 0 THEN genes_2[i] ELSE genes_1[i]]
        last == IF n = 0 THEN chromosome_1 ELSE genes_1[n]
    IN  IF last.ty = "str"
        THEN LET joined_1 == Join(new_chromosome_1, 322)
                 joined_2 == Join(new_chromosome_2, 322)
             IN  IF joined_1.exc # "none" THEN joined_1
                 ELSE IF joined_2.exc # "none" THEN joined_2
                 ELSE Return(PyTuple(<<joined_1.value, joined_2.value>>))
        ELSE Return(PyTuple(<<PyList(new_chromosome_1), PyList(new_chromosome_2)>>))

Recombine(recombinator, chromosome_1, chromosome_2, draw) ==
    CASE recombinator = "PointCrossOver" ->
            PointCrossOverRecombine(chromosome_1, chromosome_2, draw)
      [] recombinator = "SplitCrossOver" ->
            SplitCrossOverRecombine(chromosome_1, chromosome_2, draw)
      [] OTHER -> UniformSwapperRecombine(chromosome_1, chromosome_2, draw)

\* The random numbers a call of recombine draws.
RecombineDraws(recombinator, chromosome_1, chromosome_2) ==
    LET L == PyLen(chromosome_1)
    IN  CASE recombinator = "PointCrossOver" ->
                IF L = 0 THEN {<<>>}
                ELSE {d \in (0..(L - 1)) \X (0..(L - 1)) : d[1] <= d[2]}
          [] recombinator = "SplitCrossOver" ->
                IF L = 0 THEN {<<>>} ELSE {<<point>> : point \in 0..(L - 1)}
          [] OTHER -> [1..Min(L, PyLen(chromosome_2)) -> 0..1]

\* The gene bases: the binary bit-string base (one bit per gene, the genes
\* the digits "0" and "1") and two arbitrary bases, one over ints and one over
\* strs of one or more characters.  random_genes(quantity) draws quantity
\* genes of the base.
BinaryBase == [kind |-> "BitStringBase", values |-> {PyStr(<<"0">>), PyStr(<<"1">>)}]
ArbitraryBaseOfInts == [kind |-> "ArbitraryBase", values |-> {PyInt(0), PyInt(1)}]
ArbitraryBaseOfStrs ==
    [kind |-> "ArbitraryBase", values |-> {PyStr(<<"a">>), PyStr(<<"b", "c">>)}]
ArbitraryBases == {ArbitraryBaseOfInts, ArbitraryBaseOfStrs}

\* chromosome[index] = gene for the first k of the (index, gene) pairs drawn;
\* index is 0-based.
RECURSIVE Overwritten(_, _, _, _)
Overwritten(items, indices, genes, k) ==
    IF k = 0 THEN items
    ELSE [Overwritten(items, indices, genes, k - 1) EXCEPT ![indices[k] + 1] = genes[k]]

\* A variant of PointMutator.mutate that inserts the genes drawn instead of
\* overwriting with them.
PointMutateInserting(points, chromosome, base, indices, genes) ==
    IF PyLen(chromosome) = 0 THEN Raise("ValueError", 411)
    ELSE IF chromosome.ty = "str" THEN Raise("TypeError", 413)
    ELSE Return(PyList(chromosome.items \o genes))

\* PointMutator.mutate, lines 409-415.  randint(len(chromosome), size=points)
\* draws points indices below the length and raises ValueError for length 0;
\* a str does not support item assignment.
PointMutate(points, chromosome, base, indices, genes) ==
    IF PyLen(chromosome) = 0 THEN Raise("ValueError", 411)
    ELSE IF chromosome.ty = "str" THEN Raise("TypeError", 413)
    ELSE Return(PyList(Overwritten(chromosome.items, indices, genes, points)))

\* PointMutator.bitstring_mutate, lines 417-418.
BitstringMutate(points, chromosome, base, indices, genes) ==
    LET mutated == PointMutate(points, PyList(PyIter(chromosome)), base, indices, genes)
    IN  IF mutated.exc # "none" THEN mutated
        ELSE Join(mutated.value.items, 418)

(***************************************************************************)
(* Direct calls of recombine, mutate and bitstring_mutate.  The parents of *)
(* a recombination are of the same base and the same length; result.drawn *)
(* holds the random numbers the call drew.                                 *)
(***************************************************************************)
StrChromosomes ==
    UNION {{PyStr(c) : c \in [1..n -> {"0", "1"}]} : n \in 0..MaxChromosomeLength}
ListChromosomesOf(base) ==
    UNION {{PyList(c) : c \in [1..n -> base.values]} : n \in 0..MaxChromosomeLength}
ScenarioParents ==
    <<PyStr(<<"0", "0", "0", "0", "0", "0", "0", "0">>),
      PyStr(<<"1", "1", "1", "1", "1", "1", "1", "1">>)>>

ParentPairs ==
    {pair \in (StrChromosomes \X StrChromosomes)
              \cup UNION {ListChromosomesOf(b) \X ListChromosomesOf(b) : b \in ArbitraryBases} :
        PyLen(pair[1]) = PyLen(pair[2])}
    \cup {ScenarioParents}

RecombineCalls ==
    {[op |-> "recombine", recombinator |-> r,
      chromosome_1 |-> pair[1], chromosome_2 |-> pair[2]] :
        r \in {"PointCrossOver", "SplitCrossOver", "UniformSwapper"}, pair \in ParentPairs}

MutateCalls ==
    UNION {{[op |-> "mutate", points |-> k, chromosome |-> c, base |-> b] :
                k \in 1..MaxPoints, c \in ListChromosomesOf(b)} : b \in ArbitraryBases}
    \cup {[op |-> m, points |-> k, chromosome |-> c, base |-> b] :
        m \in {"mutate", "bitstring_mutate"}, k \in 1..MaxPoints,
        c \in StrChromosomes, b \in {BinaryBase}}

Outcome(called, draw) ==
    [exc |-> called.exc, line |-> called.line, possible |-> called.possible,
     value |-> called.value, drawn |-> draw]

InitGenes ==
    /\ InitRun
    /\ call \in RecombineCalls \cup MutateCalls
    /\ result = NoResult
    /\ queue = NoQueue

RecombineCall ==
    /\ call.op = "recombine"
    /\ result = NoResult
    /\ \E draw \in RecombineDraws(call.recombinator, call.chromosome_1, call.chromosome_2) :
        result' = Outcome(Recombine(call.recombinator, call.chromosome_1,
                                    call.chromosome_2, draw), draw)
    /\ UNCHANGED <<runvars, call, queue>>

MutateCall ==
    /\ call.op \in {"mutate", "bitstring_mutate"}
    /\ result = NoResult
    /\ LET L == PyLen(call.chromosome)
           count == IF L = 0 THEN 0 ELSE call.points
       IN  \E indices \in [1..count -> 0..(L - 1)], genes \in [1..count -> call.base.values] :
            result' = Outcome(
                IF call.op = "mutate"
                THEN PointMutate(call.points, call.chromosome, call.base, indices, genes)
                ELSE BitstringMutate(call.points, call.chromosome, call.base, indices, genes),
                <<indices, genes>>)
    /\ UNCHANGED <<runvars, call, queue>>

NextGenes == RecombineCall \/ MutateCall

SpecGenes == InitGenes /\ [][NextGenes]_vars

\* Python's == on two genes.
SameGene(a, b) == a.ty = b.ty /\ a = b

\* The two offspring a call of recombine returned.
Offspring(k) == result.value.items[k]

\* C14: for each of the three recombinators and two parents of the same length
\* L (at least one gene), recombine returns two offspring of length L whose
\* genes at each position are the parents' genes at that position, either as
\* they were or swapped.
C14_PositionwiseSwap ==
    (call.op = "recombine" /\ result.exc # "pending"
        /\ PyLen(call.chromosome_1) = PyLen(call.chromosome_2)
        /\ PyLen(call.chromosome_1) >= 1) =>
        /\ result.exc = "none"
        /\ PyLen(Offspring(1)) = PyLen(call.chromosome_1)
        /\ PyLen(Offspring(2)) = PyLen(call.chromosome_1)
        /\ \A i \in 1..PyLen(call.chromosome_1) :
            LET parent_1 == PyGetItem(call.chromosome_1, i)
                parent_2 == PyGetItem(call.chromosome_2, i)
                child_1 == PyGetItem(Offspring(1), i)
                child_2 == PyGetItem(Offspring(2), i)
            IN  \/ SameGene(child_1, parent_1) /\ SameGene(child_2, parent_2)
                \/ SameGene(child_1, parent_2) /\ SameGene(child_2, parent_1)

\* The chromosome that has the genes of inside at the positions after left up
\* to right (counted from 1) and the genes of outside elsewhere.
Spliced(outside, inside, left, right) ==
    [ty |-> outside.ty,
     items |-> [i \in 1..PyLen(outside) |->
                    IF left < i /\ i <= right THEN inside.items[i] ELSE outside.items[i]]]

PointCrossOverCalled ==
    /\ call.op = "recombine"
    /\ call.recombinator = "PointCrossOver"
    /\ result.exc # "pending"
    /\ PyLen(call.chromosome_1) >= 1

ScenarioCrossOver ==
    /\ PointCrossOverCalled
    /\ call.chromosome_1.ty = "str"
    /\ PyLen(call.chromosome_1) = 8
    /\ call.chromosome_1 = ScenarioParents[1]
    /\ call.chromosome_2 = ScenarioParents[2]
    /\ result.drawn = <<2, 5>>

\* C15: PointCrossOver.recombine with the cuts left <= right returns
\* parent1[:left] + parent2[left:right] + parent1[right:] and
\* parent2[:left] + parent1[left:right] + parent2[right:]; for the parents
\* "00000000" and "11111111" and the cuts (2, 5) that is
\* ("00111000", "11000111").
C15_PointCrossOver ==
    /\ PointCrossOverCalled =>
        /\ result.exc = "none"
        /\ result.drawn[1] <= result.drawn[2]
        /\ Offspring(1) = Spliced(call.chromosome_1, call.chromosome_2,
                                  result.drawn[1], result.drawn[2])
        /\ Offspring(2) = Spliced(call.chromosome_2, call.chromosome_1,
                                  result.drawn[1], result.drawn[2])
    /\ ScenarioCrossOver =>
        result.value = PyTuple(<<PyStr(<<"0", "0", "1", "1", "1", "0", "0", "0">>),
                                 PyStr(<<"1", "1", "0", "0", "0", "1", "1", "1">>)>>)

C15_Witness ==
    /\ ScenarioCrossOver
    /\ result.exc = "none"
    /\ Offspring(1).items[3] = "1"
    /\ Offspring(2).items[3] = "0"

\* mutate is called with a list and bitstring_mutate with a str, of at least
\* one gene.
MutateCalled ==
    /\ call.op \in {"mutate", "bitstring_mutate"}
    /\ result.exc # "pending"
    /\ PyLen(call.chromosome) >= 1
    /\ call.op = "mutate" <=> call.chromosome.ty = "list"

\* The positions (from 1) at which the chromosome returned differs from the
\* chromosome passed.
ChangedPositions ==
    {i \in 1..PyLen(call.chromosome) :
        ~SameGene(PyGetItem(result.value, i), PyGetItem(call.chromosome, i))}

MaxDenominator == 5

UnitFractions == UNION {{Fraction(n, d) : n \in 0..d} : d \in 1..MaxDenominator}

DecayCalls ==
    {[op |-> f, value |-> v, decay |-> d] :
        f \in {"linear_decay", "exponential_decay"}, v \in UnitFractions, d \in UnitFractions}

InitDecay ==
    /\ InitRun
    /\ call \in DecayCalls
    /\ result = NoResult
    /\ queue = NoQueue

DecayCall ==
    /\ call.op \in {"linear_decay", "exponential_decay"}
    /\ result = NoResult
    /\ result' = Return(PyFraction(
                    IF call.op = "linear_decay" THEN LinearDecay(call.value, call.decay)
                    ELSE ExponentialDecay(call.value, call.decay)))
    /\ UNCHANGED <<runvars, call, queue>>

NextDecay == DecayCall

SpecDecay == InitDecay /\ [][NextDecay]_vars

\* exponential_decay was called with a bias value from 0 to 1 and a decay
\* strictly between 0 and 1.
ExponentialDecayCalled ==
    /\ call.op = "exponential_decay"
    /\ result.exc # "pending"
    /\ FLe(FInt(0), call.value) /\ FLe(call.value, FInt(1))
    /\ FLt(FInt(0), call.decay) /\ FLt(call.decay, FInt(1))

MaxPriority == 3
MaxHeapSize == 5
QueueItems == <<"x", "y">>

ItemRank(item) == CHOOSE k \in 1..Len(QueueItems) : QueueItems[k] = item
EntryBefore(a, b) == a[1] < b[1] \/ (a[1] = b[1] /\ ItemRank(a[2]) < ItemRank(b[2]))

\* heapq.heappush
HeapPush(heap, entry) ==
    LET before == Cardinality({k \in 1..Len(heap) : EntryBefore(heap[k], entry)})
    IN  SubSeq(heap, 1, before) \o <<entry>> \o SubSeq(heap, before + 1, Len(heap))

\* del members[item] and members[item] = priority
DictWithout(members, item) == [i \in DOMAIN members \ {item} |-> members[i]]
DictWith(members, item, priority) ==
    [i \in DOMAIN members \cup {item} |-> IF i = item THEN priority ELSE members[i]]

\* PriorityQueue(), lines 307-326, with no items.
EmptyPriorityQueue == [cls |-> "PriorityQueue", members |-> <<>>, heap |-> <<>>, delete |-> {}]

\* The effect of a method: the queue it leaves and the outcome of the call.
Effect(q, outcome) == [queue |-> q, outcome |-> outcome]

\* PriorityQueue.push, lines 357-377.
PriorityQueuePush(q, priority, item) ==
    IF item \notin DOMAIN q.members
    THEN IF <<priority, item>> \in q.delete
         THEN Effect([q EXCEPT !.members = DictWith(q.members, item, priority),
                               !.delete = q.delete \ {<<priority, item>>}],
                     Return(PyNone))
         ELSE Effect([q EXCEPT !.members = DictWith(q.members, item, priority),
                               !.heap = HeapPush(q.heap, <<priority, item>>)],
                     Return(PyNone))
    ELSE Effect([q EXCEPT !.delete = q.delete \cup {<<q.members[item], item>>},
                          !.members = DictWith(q.members, item, priority),
                          !.heap = HeapPush(q.heap, <<priority, item>>)],
                Return(PyNone))

\* The loop of pop and popitem, lines 391-397 and 411-417; with_priority
\* tells popitem from pop.  heappop of an empty heap raises IndexError and
\* del of an item that is not a member raises KeyError.
RECURSIVE PriorityQueuePopLoop(_, _)
PriorityQueuePopLoop(q, with_priority) ==
    IF DOMAIN q.members = {}
    THEN Effect(q, Raise("IndexError", IF with_priority THEN 417 ELSE 397))
    ELSE IF q.heap = <<>>
    THEN Effect(q, Raise("IndexError", IF with_priority THEN 412 ELSE 392))
    ELSE LET entry == Head(q.heap)
             popped == [q EXCEPT !.heap = Tail(q.heap)]
         IN  IF entry \notin q.delete
             THEN IF entry[2] \notin DOMAIN q.members
                  THEN Effect(popped, Raise("KeyError", IF with_priority THEN 414 ELSE 394))
                  ELSE Effect([popped EXCEPT !.members = DictWithout(q.members, entry[2])],
                              Return(IF with_priority
                                     THEN PyTuple(<<PyStr(<<entry[2]>>), PyInt(entry[1])>>)
                                     ELSE PyStr(<<entry[2]>>)))
             ELSE PriorityQueuePopLoop([popped EXCEPT !.delete = q.delete \ {entry}],
                                       with_priority)

\* PriorityQueue.pop, lines 379-397, and popitem, lines 399-417.
PriorityQueuePop(q) == PriorityQueuePopLoop(q, FALSE)
PriorityQueuePopItem(q) == PriorityQueuePopLoop(q, TRUE)

\* PriorityQueue.remove, lines 419-434.
PriorityQueueRemove(q, item) ==
    IF item \in DOMAIN q.members
    THEN Effect([q EXCEPT !.delete = q.delete \cup {<<q.members[item], item>>},
                          !.members = DictWithout(q.members, item)],
                Return(PyNone))
    ELSE Effect(q, Raise("KeyError", 434))

\* A program constructs an empty PriorityQueue and calls its methods one
\* after the other; call is the last call made and result its outcome.
InitPriorityQueue ==
    /\ InitRun
    /\ call = NoCall
    /\ result = NoResult
    /\ queue = EmptyPriorityQueue

Applied(made, effect) ==
    /\ call' = made
    /\ result' = effect.outcome
    /\ queue' = effect.queue
    /\ UNCHANGED runvars

PriorityQueuePushCall ==
    /\ queue.cls = "PriorityQueue"
    /\ Len(queue.heap) < MaxHeapSize
    /\ \E priority \in 1..MaxPriority, k \in 1..Len(QueueItems) :
        Applied([op |-> "push", priority |-> priority, item |-> QueueItems[k]],
                PriorityQueuePush(queue, priority, QueueItems[k]))

PriorityQueuePopCall ==
    /\ queue.cls = "PriorityQueue"
    /\ Applied([op |-> "pop"], PriorityQueuePop(queue))

PriorityQueuePopItemCall ==
    /\ queue.cls = "PriorityQueue"
    /\ Applied([op |-> "popitem"], PriorityQueuePopItem(queue))

PriorityQueueRemoveCall ==
    /\ queue.cls = "PriorityQueue"
    /\ \E k \in 1..Len(QueueItems) :
        Applied([op |-> "remove", item |-> QueueItems[k]],
                PriorityQueueRemove(queue, QueueItems[k]))

NextPriorityQueue ==
    \/ PriorityQueuePushCall
    \/ PriorityQueuePopCall
    \/ PriorityQueuePopItemCall
    \/ PriorityQueueRemoveCall

SpecPriorityQueue == InitPriorityQueue /\ [][NextPriorityQueue]_vars

\* The members of least priority.
LowestMembers(members) ==
    {i \in DOMAIN members : \A j \in DOMAIN members : members[i] <= members[j]}

\* C18: whatever pushes (also of items present, also back to a priority held
\* before), removes and pops went before, pop and popitem on a queue that has
\* members do not raise, return a member of the least current priority
\* (popitem with that priority) and remove it from the members.
C18_PopsLowestCurrentPriority ==
    [][(call'.op \in {"pop", "popitem"} /\ DOMAIN queue.members # {}) =>
            /\ result'.exc = "none"
            /\ LET item == IF call'.op = "pop" THEN result'.value.items[1]
                           ELSE result'.value.items[1].items[1]
               IN  /\ item \in LowestMembers(queue.members)
                   /\ call'.op = "popitem" =>
                        result'.value.items[2] = PyInt(queue.members[item])
                   /\ queue'.members = DictWithout(queue.members, item)]_vars

(***************************************************************************)
(* SortedQueue (DataStructures/Queues.py).  The items are small positive   *)
(* ints.  heap holds an entry <<value, item>> per item, where value is the *)
(* key's value of the item (a QItem) or, without a key, the item itself;   *)
(* as for PriorityQueue it is held as the ascending sequence of its        *)
(* entries.  members and delete are sets of items.  key_recurses tells     *)
(* that the name key is bound to lambda item: -key(item), line 136, whose  *)
(* body calls that same lambda: every call of it ends in RecursionError.   *)
(* The queue is constructed from a series of no or several items or from   *)
(* a list of items.                                                        *)
(***************************************************************************)
MaxItem == 2
MaxSeries == 3

QueueKeys == {"None", "negate"}
KeyValue(key, item) == IF key = "negate" THEN 0 - item ELSE item

SortedEntryBefore(a, b) == a[1] < b[1] \/ (a[1] = b[1] /\ a[2] < b[2])

\* heapq.heappush and heapq.heapify
SortedHeapPush(heap, entry) ==
    LET before == Cardinality({k \in 1..Len(heap) : SortedEntryBefore(heap[k], entry)})
    IN  SubSeq(heap, 1, before) \o <<entry>> \o SubSeq(heap, before + 1, Len(heap))
RECURSIVE Heapified(_)
Heapified(entries) ==
    IF entries = <<>> THEN <<>>
    ELSE SortedHeapPush(Heapified(Tail(entries)), Head(entries))

ItemsOf(items) == {items[k] : k \in 1..Len(items)}

\* SortedQueue.__init__, lines 111-149.
SortedQueueInit(items, key, min_first) ==
    IF key # "None" /\ ~min_first /\ items # <<>>
    THEN Effect(NoQueue, Raise("RecursionError", 136))
    ELSE Effect([cls |-> "SortedQueue", key |-> key,
                 key_recurses |-> key # "None" /\ ~min_first,
                 heap |-> Heapified([k \in 1..Len(items) |->
                                        <<KeyValue(key, items[k]), items[k]>>]),
                 members |-> ItemsOf(items), delete |-> {}],
                Return(PyNone))

\* SortedQueue.push, lines 171-183.
SortedQueuePush(q, item) ==
    IF item \in q.members THEN Effect(q, Return(PyNone))
    ELSE IF item \in q.delete
    THEN Effect([q EXCEPT !.members = q.members \cup {item},
                          !.delete = q.delete \ {item}],
                Return(PyNone))
    ELSE IF q.key_recurses
    THEN Effect([q EXCEPT !.members = q.members \cup {item}], Raise("RecursionError", 136))
    ELSE Effect([q EXCEPT !.members = q.members \cup {item},
                          !.heap = SortedHeapPush(q.heap, <<KeyValue(q.key, item), item>>)],
                Return(PyNone))

\* The loop of push_all over an iterable that is not a set, lines 227-229:
\* it ends at the first push that raises.
RECURSIVE SortedQueuePushEach(_, _)
SortedQueuePushEach(q, items) ==
    IF items = <<>> THEN Effect(q, Return(PyNone))
    ELSE LET pushed == SortedQueuePush(q, Head(items))
         IN  IF pushed.outcome.exc # "none" THEN pushed
             ELSE SortedQueuePushEach(pushed.queue, Tail(items))

RECURSIVE SortedHeapPushAll(_, _, _)
SortedHeapPushAll(heap, key, push_items) ==
    IF push_items = {} THEN heap
    ELSE LET item == CHOOSE item \in push_items : TRUE
         IN  SortedHeapPushAll(SortedHeapPush(heap, <<KeyValue(key, item), item>>),
                               key, push_items \ {item})

\* SortedQueue.push_all, lines 207-229.  form is "series" for push_all(*items),
\* "list" for push_all(a list) and "set" for push_all(a set); a series of one
\* item is taken for an iterable, which an int is not.
SortedQueuePushAll(q, form, items) ==
    IF form = "series" /\ Len(items) = 1 THEN Effect(q, Raise("TypeError", 228))
    ELSE IF form = "set"
    THEN LET new_items == ItemsOf(items) \ q.members
             push_items == new_items \ q.delete
             with_members == [q EXCEPT !.members = q.members \cup new_items]
         IN  IF push_items # {} /\ q.key_recurses
             THEN Effect(with_members, Raise("RecursionError", 136))
             ELSE Effect([with_members EXCEPT
                              !.heap = SortedHeapPushAll(q.heap, q.key, push_items),
                              !.delete = q.delete \ new_items],
                         Return(PyNone))
    ELSE SortedQueuePushEach(q, items)

\* SortedQueue.pop, lines 231-249.  heappop of an empty heap raises IndexError
\* and members.remove of an item that is not a member raises KeyError.
RECURSIVE SortedQueuePop(_)
SortedQueuePop(q) ==
    IF q.members = {} THEN Effect(q, Raise("IndexError", 249))
    ELSE IF q.heap = <<>> THEN Effect(q, Raise("IndexError", 244))
    ELSE LET item == Head(q.heap)[2]
             popped == [q EXCEPT !.heap = Tail(q.heap)]
         IN  IF item \notin q.delete
             THEN IF item \notin q.members
                  THEN Effect(popped, Raise("KeyError", 246))
                  ELSE Effect([popped EXCEPT !.members = q.members \ {item}],
                              Return(PyInt(item)))
             ELSE SortedQueuePop([popped EXCEPT !.delete = q.delete \ {item}])

\* SortedQueue.remove, lines 251-266.
SortedQueueRemove(q, item) ==
    IF item \in q.members
    THEN Effect([q EXCEPT !.members = q.members \ {item},
                          !.delete = q.delete \cup {item}],
                Return(PyNone))
    ELSE Effect(q, Raise("KeyError", 266))

\* The series of items a queue is constructed from or push_all is called with.
ItemSeries == UNION {[1..n -> 1..MaxItem] : n \in 0..MaxSeries}

\* A program constructs a SortedQueue and, when that has succeeded, calls
\* its methods one after the other.
InitSortedQueue ==
    /\ InitRun
    /\ call = NoCall
    /\ result = NoResult
    /\ queue = NoQueue

SortedQueueInitCall ==
    /\ call = NoCall
    /\ \E form \in {"series", "list"}, items \in ItemSeries,
          key \in QueueKeys, min_first \in BOOLEAN :
        /\ form = "series" => Len(items) # 1
        /\ Applied([op |-> "SortedQueue", form |-> form, items |-> items,
                    key |-> key, min_first |-> min_first],
                   SortedQueueInit(items, key, min_first))

SortedQueuePushCall ==
    /\ queue.cls = "SortedQueue"
    /\ \E item \in 1..MaxItem :
        Applied([op |-> "push", item |-> item], SortedQueuePush(queue, item))

SortedQueuePushAllCall ==
    /\ queue.cls = "SortedQueue"
    /\ \E form \in {"series", "list", "set"}, items \in ItemSeries :
        /\ form = "set" => \A k \in 1..(Len(items) - 1) : items[k] < items[k + 1]
        /\ Applied([op |-> "push_all", form |-> form, items |-> items],
                   SortedQueuePushAll(queue, form, items))

SortedQueuePopCall ==
    /\ queue.cls = "SortedQueue"
    /\ Applied([op |-> "pop"], SortedQueuePop(queue))

SortedQueueRemoveCall ==
    /\ queue.cls = "SortedQueue"
    /\ \E item \in 1..MaxItem :
        Applied([op |-> "remove", item |-> item], SortedQueueRemove(queue, item))

NextSortedQueue ==
    \/ SortedQueueInitCall
    \/ SortedQueuePushCall
    \/ SortedQueuePushAllCall
    \/ SortedQueuePopCall
    \/ SortedQueueRemoveCall

SpecSortedQueue == InitSortedQueue /\ [][NextSortedQueue]_vars

\* The value a queue orders an item by: the item, the key's value of it or,
\* with the maximum first, the negated key's value.
OrderValue(key, min_first, item) ==
    IF key = "None" \/ min_first THEN KeyValue(key, item) ELSE 0 - KeyValue(key, item)

\* The members of lowest order.
LowestOrder(members, key, min_first) ==
    {i \in members : \A j \in members :
        OrderValue(key, min_first, i) <= OrderValue(key, min_first, j)}

\* C19: for a SortedQueue constructed from any series of items, duplicates
\* allowed, and after any pushes, push_alls, removes and pops, pop on a queue
\* that has members returns a member of lowest order and removes it (len goes
\* down by exactly one, no member is returned twice), and pop raises
\* IndexError only when the queue has no members.
C19_PopsEachMemberOnce ==
    [][(call'.op = "pop" /\ queue.cls = "SortedQueue" /\ ~queue.key_recurses) =>
            /\ queue.members # {} =>
                /\ result'.exc = "none"
                /\ result'.value.ty = "int"
                /\ result'.value.items[1] \in LowestOrder(queue.members, queue.key, TRUE)
                /\ queue'.members = queue.members \ {result'.value.items[1]}
                /\ Cardinality(queue'.members) = Cardinality(queue.members) - 1
            /\ result'.exc = "IndexError" => queue.members = {}]_vars

\* C20: a SortedQueue with a key function and min_first=False is constructed
\* without an exception, and each pop of it returns a member whose key value
\* is the greatest among the members.
C20_MaximumFirst ==
    [][/\ (call'.op = "SortedQueue" /\ call'.key # "None" /\ ~call'.min_first) =>
            /\ result'.exc = "none"
            /\ queue'.cls = "SortedQueue"
       /\ (call'.op = "pop" /\ queue.cls = "SortedQueue" /\ queue.key_recurses
                /\ queue.members # {}) =>
            /\ result'.exc = "none"
            /\ result'.value.items[1] \in LowestOrder(queue.members, queue.key, FALSE)]_vars

(***************************************************************************)
(* max_n and cycle_for (Auxiliary/moreitertools.py).  The elements given   *)
(* to max_n are small positive ints; the key is None or lambda x: -x.      *)
(* form is "iterable" for a call with one list and "args" for a call with  *)
(* the elements as positional arguments: __extract_args takes a single     *)
(* argument for an iterable, which an int is not.                          *)
(***************************************************************************)
MaxElement == 3
MaxArgs == 3
MaxCycleNumerator == 5
MaxCycleDenominator == 3

MaxNKeys == {"None", "negate"}
MaxNKeyValue(key, element) == IF key = "negate" THEN 0 - element ELSE element

\* max(iterable, key=key): the first of the elements of greatest key value.
PyMax(elements, key) ==
    LET first == CHOOSE k \in 1..Len(elements) :
                    /\ \A j \in 1..Len(elements) :
                        MaxNKeyValue(key, elements[j]) <= MaxNKeyValue(key, elements[k])
                    /\ \A j \in 1..(k - 1) :
                        MaxNKeyValue(key, elements[j]) < MaxNKeyValue(key, elements[k])
    IN  elements[first]

\* sorted(iterable, key=key): ascending by key value, equal elements in the
\* order they came.
RECURSIVE PySorted(_, _)
PySorted(elements, key) ==
    IF elements = <<>> THEN <<>>
    ELSE LET n == Len(elements)
             sorted == PySorted(SubSeq(elements, 1, n - 1), key)
             before == Cardinality({k \in 1..(n - 1) :
                            MaxNKeyValue(key, sorted[k]) <= MaxNKeyValue(key, elements[n])})
         IN  SubSeq(sorted, 1, before) \o <<elements[n]>> \o SubSeq(sorted, before + 1, n - 1)

\* max_n, lines 257-262.
MaxN(form, elements, n, key) ==
    IF form = "args" /\ Len(elements) = 1 THEN Raise("TypeError", 51)
    ELSE IF n = 1
    THEN IF elements = <<>> THEN Raise("ValueError", 261)
         ELSE Return(PyInt(PyMax(elements, key)))
    ELSE Return(PyList(PySlice(PySorted(elements, key), 0, n)))

\* The loop of cycle_for, lines 198-206: the items yielded after those of
\* yielded, with i the index into the sequence and cycled the count so far.
RECURSIVE CycleForLoop(_, _, _, _, _, _)
CycleForLoop(sequence, cycles, preempt, i, cycled, yielded) ==
    LET cycles_per_item == Fraction(1, Len(sequence))
    IN  IF (~preempt /\ FLt(cycled, cycles)) \/ FLt(FAdd(cycled, cycles_per_item), cycles)
        THEN CycleForLoop(sequence, cycles, preempt, (i % Len(sequence)) + 1,
                          FAdd(cycled, cycles_per_item),
                          Append(yielded, sequence[(i % Len(sequence)) + 1]))
        ELSE yielded

\* list(cycle_for(sequence, cycles, preempt)), lines 181-206.  Fraction("1/0")
\* raises ZeroDivisionError.
CycleFor(sequence, cycles, preempt) ==
    IF ~FLt(FInt(0), cycles) THEN Return(PyList(<<>>))
    ELSE IF Len(sequence) = 0 THEN Raise("ZeroDivisionError", 199)
    ELSE Return(PyList(CycleForLoop(sequence, cycles, preempt, 0, FInt(0), <<>>)))

MaxNCalls ==
    {[op |-> "max_n", form |-> form, elements |-> elements, n |-> n, key |-> key] :
        form \in {"iterable", "args"},
        elements \in UNION {[1..len -> 1..MaxElement] : len \in 0..MaxArgs},
        n \in 0..MaxArgs, key \in MaxNKeys}

CycleForCalls ==
    {[op |-> "cycle_for", sequence |-> SubSeq(IndividualNames, 1, len),
      cycles |-> Fraction(numerator, denominator), preempt |-> preempt] :
        len \in 0..MaxArgs, numerator \in (0 - 1)..MaxCycleNumerator,
        denominator \in 1..MaxCycleDenominator, preempt \in BOOLEAN}

InitIter ==
    /\ InitRun
    /\ call \in MaxNCalls \cup CycleForCalls
    /\ result = NoResult
    /\ queue = NoQueue

MaxNCall ==
    /\ call.op = "max_n"
    /\ result = NoResult
    /\ result' = MaxN(call.form, call.elements, call.n, call.key)
    /\ UNCHANGED <<runvars, call, queue>>

CycleForCall ==
    /\ call.op = "cycle_for"
    /\ result = NoResult
    /\ result' = CycleFor(call.sequence, call.cycles, call.preempt)
    /\ UNCHANGED <<runvars, call, queue>>

NextIter == MaxNCall \/ CycleForCall

SpecIter == InitIter /\ [][NextIter]_vars

\* How often element occurs in elements.
Occurrences(elements, element) ==
    Cardinality({k \in 1..Len(elements) : elements[k] = element})

\* returned holds n of the elements, none of them of a lesser key value than
\* an element left out.
IsLargest(returned, elements, n, key) ==
    /\ Len(returned) = n
    /\ \A v \in 1..MaxElement : Occurrences(returned, v) <= Occurrences(elements, v)
    /\ \A k \in 1..Len(returned) : \A w \in 1..MaxElement :
        Occurrences(returned, w) < Occurrences(elements, w) =>
            MaxNKeyValue(key, w) <= MaxNKeyValue(key, returned[k])

\* C21: max_n of at least n elements, with n at least 1, returns the n
\* elements of greatest key value (for n = 1 the one maximum).
C21_MaxNLargest ==
    (call.op = "max_n" /\ result.exc # "pending" /\ call.n >= 1
        /\ Len(call.elements) >= call.n
        /\ ~(call.form = "args" /\ Len(call.elements) = 1)) =>
        /\ result.exc = "none"
        /\ IF call.n = 1
           THEN /\ result.value.ty = "int"
                /\ IsLargest(result.value.items, call.elements, 1, call.key)
           ELSE /\ result.value.ty = "list"
                /\ IsLargest(result.value.items, call.elements, call.n, call.key)

Floor(x) == x[1] \div x[2]

\* C22: cycle_for over a sequence of L >= 1 items yields the items in cyclic
\* order from index 0, ceil(L * cycles) of them without preempt and
\* floor(L * cycles) with it, for every cycles > 0, and none for cycles <= 0.
C22_CycleForCount ==
    (call.op = "cycle_for" /\ result.exc # "pending" /\ Len(call.sequence) >= 1) =>
        /\ result.exc = "none"
        /\ LET L == Len(call.sequence)
               total == FMul(FInt(L), call.cycles)
               count == IF ~FLt(FInt(0), call.cycles) THEN 0
                        ELSE IF call.preempt THEN Floor(total) ELSE Ceil(total)
           IN  /\ Len(result.value.items) = count
               /\ \A k \in 1..Len(result.value.items) :
                    result.value.items[k] = call.sequence[((k - 1) % L) + 1]

(***************************************************************************)
(* Further properties of cull_population.                                  *)
(***************************************************************************)
\* cull_population was called with fitness values that are weights a
\* proportionate selector takes (none negative, of sum 1).
CullCalled ==
    /\ call.op = "cull_population"
    /\ result.exc # "pending"
    /\ FSum(call.fitness_values) = FInt(1)

\* The value returned is a pair of a population list and a fitness list.
ReturnedPair ==
    /\ result.exc = "none"
    /\ result.value.ty = "tuple"
    /\ Len(result.value.items) = 2
    /\ result.value.items[1].ty = "list"
    /\ result.value.items[2].ty = "list"

CullSurviveQuantity == SurviveQuantity(Len(call.population), call.survival_factor)
CullEliteQuantity ==
    Ceil(FMul(FInt(CullSurviveQuantity), NumberOf(call.elitism_factor)))

\* C23: cull_population returns a population and a fitness sequence, both of
\* length ceil(population_size * survival_factor), the i-th fitness returned
\* being the fitness the call gave for the i-th chromosome returned, with no,
\* partial or full elitism.
C23_CulledPairAligned ==
    CullCalled =>
        /\ ReturnedPair
        /\ Len(result.value.items[1].items) = CullSurviveQuantity
        /\ Len(result.value.items[2].items) = CullSurviveQuantity
        /\ \A i \in 1..CullSurviveQuantity :
            \E j \in 1..Len(call.population) :
                /\ call.population[j] = result.value.items[1].items[i]
                /\ call.fitness_values[j] = result.value.items[2].items[i]

\* C24: with an elitism factor below 1 and fewer survivors than individuals,
\* cull_population keeps the
\* ceil(survive_quantity * elitism_factor) fittest individuals, takes the
\* other survivors from the rest, and returns the elite ahead of them, in the
\* population and in the fitness sequence.
C24_EliteFirst ==
    (CullCalled /\ ~IsNone(call.elitism_factor)
        /\ FLt(NumberOf(call.elitism_factor), FInt(1))
        /\ CullSurviveQuantity < Len(call.population)) =>
        /\ ReturnedPair
        /\ LET n == Len(call.population)
               elite == CullEliteQuantity
               survivors == result.value.items[1].items
               fitness == result.value.items[2].items
           IN  /\ Len(survivors) = CullSurviveQuantity
               /\ Len(fitness) = CullSurviveQuantity
               /\ SubSeq(survivors, 1, elite) = LastOf(call.population, elite)
               /\ SubSeq(fitness, 1, elite) = LastOf(call.fitness_values, elite)
               /\ \A i \in (elite + 1)..Len(survivors) :
                    \E j \in 1..(n - elite) : call.population[j] = survivors[i]

(***************************************************************************)
(* Properties of the growth and mutation steps of run.                     *)
(***************************************************************************)
\* Every item of s is in t at least as often as in s.
SubMultiset(s, t) ==
    \A i \in 1..Len(s) :
        Cardinality({k \in 1..Len(s) : s[k] = s[i]})
            <= Cardinality({k \in 1..Len(t) : t[k] = s[i]})

\* C25: the growth step of a generation (lines 949-950) leaves a population
\* of exactly min(ceil(base_population_size * expansion_factor),
\* max_pop_size) individuals.
C25_GrownToDesiredSize ==
    [][pc = "grow" =>
            /\ pc' # "raised"
            /\ desired_population_size' =
                    Min(Ceil(FMul(FInt(base_population_size), cfg.expansion_factor)),
                        cfg.max_pop_size)
            /\ Len(population'.items) = desired_population_size']_vars

\* C26: the population the growth step of a generation returns holds every
\* survivor the culling step of that generation returned, as often as the
\* survivors hold it.
C26_SurvivorsKept ==
    [][pc = "grow" =>
            /\ pc' # "raised"
            /\ SubMultiset(population.items, population'.items)]_vars

\* The lines of a generation up to its mutation step, and of the operations
\* called on the way.
LinesUpToMutation == (922..955) \cup (528..599) \cup (1036..1064)

\* C28: every generation run begins reaches its mutation step (lines
\* 952-955), where floor(population_size * m_g) mutations are applied, m_g
\* being the mutation factor aged once per generation after generation 0.
C28_MutationsPerGeneration ==
    Accepted => ~(pc = "raised" /\ raised.line \in LinesUpToMutation)

(***************************************************************************)
(* mutate_population, called on its own.  GeneticMutator is abstract and   *)
(* its bitstring_mutate, numerical_mutate and arbitrary_mutate forward to  *)
(* mutate, so whichever the dispatch of lines 1163-1168 picks, mutate is   *)
(* what runs.  The mutator here counts: a chromosome is one numerical gene *)
(* and mutate adds one to it, so the gene of an individual tells how often *)
(* the individual was mutated.                                             *)
(***************************************************************************)
MaxMutatePop == 3
MaxMutationNumerator == 4

CountingMutate(chromosome) == <<chromosome[1] + 1>>

\* mutated_population[index] = mutate(mutated_population[index], base) for
\* each index of indices in turn (lines 1172-1174 and 1180-1182); indices
\* count from 0.
RECURSIVE MutateEach(_, _)
MutateEach(mutated_population, indices) ==
    IF indices = <<>> THEN mutated_population
    ELSE MutateEach([mutated_population EXCEPT ![indices[1] + 1] = CountingMutate(@)],
                    Tail(indices))

\* range(len(population)).
PyRange(n) == [i \in 1..n |-> i - 1]

\* mutate_population as it would be were the whole cycles taken with
\* preempt.
MutatePopulationPreempting(individuals, mutation_factor, mutate_all, draws) ==
    LET n == Len(individuals)
        mutations_quantity == Floor(FMul(FInt(n), mutation_factor))
        cycling == mutate_all /\ mutations_quantity >= n
    IN  IF cycling /\ n = 0 THEN Raise("ZeroDivisionError", 1171)
        ELSE LET cycles == IF cycling THEN mutations_quantity \div n ELSE 0
                 cycled == IF cycling
                           THEN MutateEach(individuals,
                                    CycleFor(PyRange(n), FInt(cycles), TRUE).value.items)
                           ELSE individuals
                 remaining == mutations_quantity - (n * cycles)
             IN  IF ~mutate_all \/ remaining # 0
                 THEN IF remaining < 0 THEN Raise("ValueError", 1180)
                      ELSE Return(PyList(MutateEach(cycled, draws)))
                 ELSE Return(PyList(cycled))

\* mutate_population, lines 1159-1184.  draws is what
\* random_generator.choice(len(population), mutations_quantity) returns at
\* line 1180; 0 // 0 at line 1171 raises ZeroDivisionError and a negative
\* size makes choice raise ValueError.
MutatePopulation(individuals, mutation_factor, mutate_all, draws) ==
    LET n == Len(individuals)
        mutations_quantity == Floor(FMul(FInt(n), mutation_factor))
        cycling == mutate_all /\ mutations_quantity >= n
    IN  IF cycling /\ n = 0 THEN Raise("ZeroDivisionError", 1171)
        ELSE LET cycles == IF cycling THEN mutations_quantity \div n ELSE 0
                 cycled == IF cycling
                           THEN MutateEach(individuals,
                                    CycleFor(PyRange(n), FInt(cycles), FALSE).value.items)
                           ELSE individuals
                 remaining == mutations_quantity - (n * cycles)
             IN  IF ~mutate_all \/ remaining # 0
                 THEN IF remaining < 0 THEN Raise("ValueError", 1180)
                      ELSE Return(PyList(MutateEach(cycled, draws)))
                 ELSE Return(PyList(cycled))

\* The arrays choice(len(population), mutations_quantity) can return at line
\* 1180: as many indices below len(population) as are left to mutate.
MutationDraws(individuals, mutation_factor, mutate_all) ==
    LET n == Len(individuals)
        mutations_quantity == Floor(FMul(FInt(n), mutation_factor))
        remaining == IF mutate_all /\ mutations_quantity >= n /\ n > 0
                     THEN mutations_quantity % n
                     ELSE mutations_quantity
    IN  IF remaining <= 0 THEN {<<>>} ELSE [1..remaining -> 0..(n - 1)]

MutatePopulationCalls ==
    {[op |-> "mutate_population", population |-> [i \in 1..n |-> <<0>>],
      mutation_factor |-> Fraction(numerator, 2), mutate_all |-> mutate_all] :
        n \in 0..MaxMutatePop, numerator \in (0 - 1)..MaxMutationNumerator,
        mutate_all \in BOOLEAN}

InitMutatePopulation ==
    /\ InitRun
    /\ call \in MutatePopulationCalls
    /\ result = NoResult
    /\ queue = NoQueue

MutatePopulationCall ==
    /\ call.op = "mutate_population"
    /\ result = NoResult
    /\ \E draws \in MutationDraws(call.population, call.mutation_factor, call.mutate_all) :
        result' = MutatePopulation(call.population, call.mutation_factor,
                                   call.mutate_all, draws)
    /\ UNCHANGED <<runvars, call, queue>>

NextMutatePopulation == MutatePopulationCall

SpecMutatePopulation == InitMutatePopulation /\ [][NextMutatePopulation]_vars

\* mutate_population was called with a population of at least one
\* individual and a mutation factor of at least 0, and has returned or
\* raised.
MutatePopulationCalled ==
    /\ call.op = "mutate_population"
    /\ result.exc # "pending"
    /\ Len(call.population) >= 1
    /\ FLe(FInt(0), call.mutation_factor)

MutationsQuantity == Floor(FMul(FInt(Len(call.population)), call.mutation_factor))

\* How often the individual at position i was mutated.
MutationsOf(i) == result.value.items[i][1] - call.population[i][1]

RECURSIVE TotalMutations(_)
TotalMutations(n) == IF n = 0 THEN 0 ELSE MutationsOf(n) + TotalMutations(n - 1)

\* The population comes back with its length and mutations_quantity
\* mutations in all.
MutationsApplied ==
    /\ result.exc = "none"
    /\ result.value.ty = "list"
    /\ Len(result.value.items) = Len(call.population)
    /\ TotalMutations(Len(call.population)) = MutationsQuantity

\* Every individual was mutated at least mutations_quantity //
\* len(population) times; with the total of mutations_quantity, that leaves
\* mutations_quantity mod len(population) mutations for the drawn
\* individuals.
EveryIndividualCycled ==
    \A i \in 1..Len(call.population) :
        MutationsOf(i) >= MutationsQuantity \div Len(call.population)

BiasStep == pc = "bias" /\ ~IsNone(diversity_bias)

\* The fitness of the individuals of the population as the encoder
\* evaluates it, and the greatest of them.
UnbiasedFitness == [i \in 1..Len(population.items) |-> EvaluateFitness(population.items[i])]

\* The step applies bias': every fitness value f of the population becomes
\* f + (max_fitness - f) * bias', max_fitness being the greatest unbiased
\* fitness of the population.
BiasApplied ==
    /\ fitness_values.items = UnbiasedFitness
    /\ population' = population
    /\ fitness_values'.ty = "list"
    /\ Len(fitness_values'.items) = Len(UnbiasedFitness)
    /\ \A i \in 1..Len(UnbiasedFitness) :
        fitness_values'.items[i] =
            FAdd(UnbiasedFitness[i],
                 FMul(FSub(FMaxOf(UnbiasedFitness), UnbiasedFitness[i]),
                      NumberOf(diversity_bias')))

\* The step ages the bias once by the decay function of the schedule.
BiasAgedOnce ==
    /\ ~IsNone(cfg.diversity.decay)
    /\ diversity_bias' =
            PyFraction(DecayFunction(cfg.diversity.decay_type, NumberOf(diversity_bias),
                                     NumberOf(cfg.diversity.decay)))

C30_BiasShrinks ==
    [][BiasStep =>
            /\ FLe(NumberOf(diversity_bias'), NumberOf(diversity_bias))
            /\ FLe(FInt(0), NumberOf(diversity_bias'))]_vars

(***************************************************************************)
(* Termination of run.                                                     *)
(***************************************************************************)
\* run was accepted with an integer for max_generations.
CountedRun == Accepted /\ cfg.max_generations.ty = "int"

\* The control points of the body of the loop of run.
InLoopBody == pc \in {"bias", "scale", "cull", "grow"}

PointCrossOverCall ==
    /\ PointCrossOverCalled
    /\ PyLen(call.chromosome_2) = PyLen(call.chromosome_1)

\* C32: PointCrossOver.recombine can draw every pair of cuts (left, right)
\* with 0 <= left <= right <= length, and so can hand the last gene of each
\* parent to the other's offspring.
C32_EveryCutPair ==
    PointCrossOverCall =>
        LET length == PyLen(call.chromosome_1)
            draws == RecombineDraws("PointCrossOver", call.chromosome_1, call.chromosome_2)
        IN  /\ \A left \in 0..length : \A right \in left..length :
                    <<left, right>> \in draws
            /\ \E draw \in draws :
                    LET offspring == PointCrossOverRecombine(call.chromosome_1,
                                                             call.chromosome_2, draw)
                    IN  /\ offspring.exc = "none"
                        /\ SameGene(PyGetItem(offspring.value.items[1], length),
                                    PyGetItem(call.chromosome_2, length))
                        /\ SameGene(PyGetItem(offspring.value.items[2], length),
                                    PyGetItem(call.chromosome_1, length))

(***************************************************************************)
(* Closure of the genetic operators over the chromosomes.                  *)
(***************************************************************************)
\* The chromosome is of the type and the length of the first parent, and
\* each of its genes is a gene of one of the parents.
OfTheParents(chromosome) ==
    /\ chromosome.ty = call.chromosome_1.ty
    /\ PyLen(chromosome) = PyLen(call.chromosome_1)
    /\ \A i \in 1..PyLen(chromosome) :
        \E j \in 1..PyLen(call.chromosome_1) :
            \/ SameGene(PyGetItem(chromosome, i), PyGetItem(call.chromosome_1, j))
            \/ SameGene(PyGetItem(chromosome, i), PyGetItem(call.chromosome_2, j))

\* C33: recombination and mutation are closed over the chromosomes of the
\* encoder: the offspring of two parents of one length and base, and the
\* mutation of a chromosome, are chromosomes of that length with genes of
\* that base.
C33_ClosedOverChromosomes ==
    /\ (call.op = "recombine" /\ result.exc # "pending"
            /\ PyLen(call.chromosome_1) >= 1) =>
        /\ result.exc = "none"
        /\ OfTheParents(Offspring(1))
        /\ OfTheParents(Offspring(2))
    /\ MutateCalled =>
        /\ result.exc = "none"
        /\ result.value.ty = call.chromosome.ty
        /\ PyLen(result.value) = PyLen(call.chromosome)
        /\ \A i \in 1..PyLen(result.value) :
            \E gene \in call.base.values : SameGene(PyGetItem(result.value, i), gene)

(***************************************************************************)
(* The bias adjustment of lines 932-934 on its own: the fitness values of  *)
(* a population, max_fitness their maximum (line 907), and a bias.         *)
(***************************************************************************)
MaxBiasPop == 3

\* The biases: those from 0 to 1, and one on either side of them.
BiasValues == UnitFractions \cup {Fraction(0 - 1, 2), Fraction(3, 2)}

BiasCalls ==
    {[op |-> "bias", fitness_values |-> [i \in 1..n |-> FInt(f[i])], diversity_bias |-> b] :
        n \in 1..MaxBiasPop, f \in [1..MaxBiasPop -> 0..MaxFitness], b \in BiasValues}

InitBias ==
    /\ InitRun
    /\ call \in BiasCalls
    /\ result = NoResult
    /\ queue = NoQueue

BiasCall ==
    /\ call.op = "bias"
    /\ result = NoResult
    /\ result' = Return(PyList(BiasedFitness(call.fitness_values,
                                             FMaxOf(call.fitness_values),
                                             call.diversity_bias)))
    /\ UNCHANGED <<runvars, call, queue>>

NextBias == BiasCall

SpecBias == InitBias /\ [][NextBias]_vars

\* The fitness values were adjusted by a bias from 0 to 1.
BiasCalled ==
    /\ call.op = "bias"
    /\ result.exc # "pending"
    /\ FLe(FInt(0), call.diversity_bias)
    /\ FLe(call.diversity_bias, FInt(1))

RECURSIVE PopSeries(_)
PopSeries(q) ==
    LET popped == SortedQueuePop(q)
    IN  IF popped.outcome.exc # "none" THEN <<popped.outcome>>
        ELSE <<popped.outcome>> \o PopSeries(popped.queue)

\* What a program sees of a queue: __contains__ (lines 158-159), __len__
\* (lines 164-165) and the pops.
Observable(q) ==
    [members |-> q.members, length |-> Cardinality(q.members), pops |-> PopSeries(q)]

\* The sets push_all is called with and the orders a loop goes through one in.
ItemSets == {items \in ItemSeries : \A k \in 1..(Len(items) - 1) : items[k] < items[k + 1]}
OrdersOf(items) == {each \in ItemSeries : Len(each) = Len(items) /\ ItemsOf(each) = ItemsOf(items)}

PushAllAsPushes(q) ==
    \A items \in ItemSets : \A each \in OrdersOf(items) :
        Observable(SortedQueuePushAll(q, "set", items).queue)
            = Observable(SortedQueuePushEach(q, each).queue)

\* C35: from every state of a queue, push_all of a set leaves the members, the
\* length and the pops that follow as pushing the items of the set one by one
\* with push leaves them.
C35_PushAllAsPushes == queue.cls = "SortedQueue" => PushAllAsPushes(queue)

\* The same for the queues whose key function can be called.
PushAllAsPushesWithKey ==
    (queue.cls = "SortedQueue" /\ ~queue.key_recurses) => PushAllAsPushes(queue)

\* ---------------------------------------------------------------------
\* The end of a run none of whose generations bettered the first population.

\* No generation has bound best_individual_achieved (line 977 is the only
\* assignment to it).
NeverImproved == best_individual_achieved = Unbound

\* C36: a run called with accepted parameters and max_generations >= 0 that
\* ends without a generation having achieved a fitness above the best of the
\* first population (max_generations = 0 with it) returns a Solution instead
\* of raising, and the Solution's best_individual is the best chromosome of
\* the first population.
C36_ReturnsWithoutImprovement ==
    (WellFormedRun /\ cfg.max_generations.items[1] >= 0 /\ RunEnded
        /\ ~GenerationFailed /\ NeverImproved) =>
        /\ pc = "returned"
        /\ solution.best_fitness = best_fitness_achieved
        /\ \E i \in 1..Len(population.items) :
            /\ solution.best_individual = population.items[i]
            /\ fitness_values.items[i] = best_fitness_achieved

\* ---------------------------------------------------------------------
\* Survival elitism over the steps of a generation.

\* survival_elitism_factor is given and greater than 0.
ElitismActive ==
    /\ Accepted
    /\ ~IsNone(cfg.survival_elitism_factor)
    /\ FLt(FInt(0), NumberOf(cfg.survival_elitism_factor))

\* The greatest fitness the encoder gives an individual of a population
\* (evaluate_fitness, as at lines 958-959), and the individuals that have it.
MaxUnbiased(individuals) ==
    FMaxOf([i \in 1..Len(individuals) |-> EvaluateFitness(individuals[i])])
HighestOf(individuals) ==
    {individuals[i] : i \in {j \in 1..Len(individuals) :
                                EvaluateFitness(individuals[j]) = MaxUnbiased(individuals)}}

\* A step of a generation keeps an individual of the highest fitness.
KeepsTheHighest ==
    /\ population'.items # <<>>
    /\ \E i \in 1..Len(population'.items) :
            population'.items[i] \in HighestOf(population.items)
    /\ FLe(MaxUnbiased(population.items), MaxUnbiased(population'.items))

\* C37: with survival elitism active, culling and growing a generation's
\* population go through, an individual of the generation's highest fitness
\* is still in the population afterwards, as it was, and the population's
\* greatest unbiased fitness has not decreased.
C37_EliteSurvives ==
    [][(ElitismActive /\ pc \in {"cull", "grow"} /\ population.items # <<>>) =>
            /\ pc' # "raised"
            /\ KeepsTheHighest]_vars

\* The same for the steps that go through.
EliteSurvivesTheStep ==
    [][(ElitismActive /\ pc \in {"cull", "grow"} /\ population.items # <<>>
            /\ pc' # "raised") => KeepsTheHighest]_vars

\* ---------------------------------------------------------------------
\* The stagnation limit as a stop condition.

\* The test of line 988 on the counter of lines 975-978 and the limit as
\* lines 890-894 resolved it.
StagnationTest ==
    /\ ~IsNone(stagnation_limit)
    /\ stagnated_generations = stagnation_limit.items[1]

\* C38: a run with an accepted stagnation limit (an integer, or a proportion
\* of max_generations resolved at line 894, 0 included) and generations to
\* run ends its generations by returning, and a Solution with
\* stagnation_limit_reached is returned only when the counter of stagnated
\* generations has reached the limit and counts at least one generation
\* that did not better the best fitness.
C38_StagnationOnlyAfterStagnating ==
    (WellFormedRun /\ ~IsNone(cfg.stagnation_limit)
        /\ cfg.max_generations.items[1] >= 1 /\ RunEnded) =>
        /\ pc = "returned"
        /\ solution.stagnation_limit_reached =>
            /\ StagnationTest
            /\ stagnated_generations >= 1

\* No run returns a Solution with stagnation_limit_reached, or any at all.
NeverReturnsStagnation == pc # "returned"

\* ---------------------------------------------------------------------
\* Stop conditions that are left unset.

\* run raised where it tests a stop condition that is None: the loop test of
\* line 921 on max_generations, the test of line 984 on fitness_threshold.
UnsetConditionRaised ==
    /\ pc = "raised"
    /\ \/ IsNone(cfg.max_generations) /\ cfg.stagnation_limit.ty = "int"
                /\ raised.line = 921
       \/ IsNone(cfg.fitness_threshold) /\ raised.line = 984

\* A Solution was returned for a stop condition that is None.
UnsetConditionTriggered ==
    /\ pc = "returned"
    /\ \/ IsNone(cfg.max_generations) /\ solution.max_generations_reached
       \/ IsNone(cfg.fitness_threshold) /\ solution.max_fitness_reached
       \/ IsNone(cfg.stagnation_limit) /\ solution.stagnation_limit_reached

\* C39: in a run called with accepted parameters, a stop condition left at
\* None (fitness_threshold, stagnation_limit, or max_generations next to an
\* integer stagnation_limit) neither makes run raise where it is tested nor
\* is the condition run returns for.
C39_UnsetConditionHarmless ==
    Accepted => (~UnsetConditionRaised /\ ~UnsetConditionTriggered)

====
